---- MODULE Spec2Model ----
(***************************************************************************)
(* A model of the GoRules Terraform provider: the Create / Read / Update / *)
(* Delete handlers of the project, group and environment resources, run    *)
(* against a backend that may answer each request in any way.              *)
(*                                                                         *)
(* One behaviour follows one resource instance.  Its kind is fixed when    *)
(* the resource is constructed (NewProjectResource, NewGroupResource,      *)
(* NewEnvironmentResource).  Each handler is one action: the plan it is    *)
(* given and the responses the backend gives to its requests are inputs.   *)
(***************************************************************************)
EXTENDS Integers, Sequences, FiniteSets, TLC

VARIABLES
    kind,       \* which resource this instance is: "project", "group", "environment"
    phase,      \* "Desired" (never created), "Managed" (tracked), "Absent" (removed)
    state,      \* the tracked record (resp.State); NullState when nothing is tracked
    createdID,  \* history: the identifier stored by the Create that made it Managed
    gone,       \* history: how the record left tracked state (the removing call)
    last,       \* history: the most recent handler call, its requests and diagnostics
    calc        \* a listing function at work on its own: its input, progress, result

vars == <<kind, phase, state, createdID, gone, last, calc>>

-----------------------------------------------------------------------------
(* Values *)

Null == "<null>"            \* types.String / types.Bool null
Unknown == "<unknown>"      \* a computed attribute the plan leaves to the provider

IsSet(v) == v # Null /\ v # Unknown

None == <<>>                \* a nil pointer / nil slice / absent JSON field
Some(x) == <<x>>
IsSome(m) == Len(m) = 1
Get(m) == m[1]

NullState == [null |-> TRUE]

Kinds == {"project", "group", "environment"}

-----------------------------------------------------------------------------
(* HTTP: a response is a status, a body and a Location header.  Status 0   *)
(* stands for a transport failure (client.Do returned err != nil); its     *)
(* body is then the error text.                                            *)

StatusUnauthorized == 401
StatusNotFound == 404

NetErr == 0

TextBody(t) == [shape |-> "text", text |-> t]
NoBody == [shape |-> "none"]
NoLocation == <<>>

Is2xx(s) == s >= 200 /\ s < 300
Is3xx(s) == s >= 300 /\ s < 400
Is5xx(s) == s >= 500

Diag(sev, summary, status, body, location) ==
    [sev |-> sev, summary |-> summary, status |-> status, body |-> body,
     location |-> location]

NoStatus == 0 - 1     \* a diagnostic whose text gives no status

Errorf(summary, r) == Diag("error", summary, NoStatus, r.body, NoLocation)

\* Configure gives every resource the same client, &http.Client{}, which
\* follows redirects; each request is sent through clientNoRedirect of it.
BaseClient == [checkRedirect |-> "follow"]

UseLastResponse == "ErrUseLastResponse"

clientNoRedirect_KeepsPolicy(base) == base

clientNoRedirect(base) == [base EXCEPT !.checkRedirect = UseLastResponse]

\* clientNoRedirect as the pointer code it is: c := *base makes a copy at a
\* fresh address, c.CheckRedirect is set on the copy, &c is returned.  heap
\* maps the address of every http.Client to its value.
Allocated(heap, ptr) == [heap |-> heap, ptr |-> ptr]

\* copyClient with a plausible slip: the policy is set on *base itself and
\* base is returned
copyClient_InPlace(heap, base) ==
    Allocated([heap EXCEPT ![base] = clientNoRedirect(heap[base])], base)

copyClient(heap, base) ==
    Allocated(Append(heap, clientNoRedirect(heap[base])), Len(heap) + 1)

Bearer == "Bearer <token>"

\* A request as sent: every call site sets the Authorization header and
\* sends through clientNoRedirect(cfg.HTTP).
Req(method, target, sent, r) ==
    [method |-> method, target |-> target, sent |-> sent, resp |-> r,
     authorization |-> Bearer, client |-> clientNoRedirect(BaseClient)]

HasError(ds) == \E i \in 1..Len(ds) : ds[i].sev = "error"
HasWarning(ds) == \E i \in 1..Len(ds) : ds[i].sev = "warning"

Result(write, st, diags, reqs) ==
    [write |-> write, state |-> st, diags |-> diags, reqs |-> reqs]

-----------------------------------------------------------------------------
(* Project *)

ProjectFlat(id, name, key, protected) ==
    [id |-> id, name |-> name, key |-> key, protected |-> protected]

ZeroProjectFlat == ProjectFlat("", "", "", None)

\* parseProjectJSON: the {"project": {...}} envelope first, then the flat
\* object; a document is accepted only if it gives an id, a name or a key.
ProjectFields(b) == ProjectFlat(b.id, b.name, b.key, b.protected)

NonEmptyProject(pf) == pf.id # "" \/ pf.name # "" \/ pf.key # ""

parseProjectJSON(raw) ==
    IF raw.shape = "wrapped" /\ NonEmptyProject(ProjectFields(raw))
    THEN [ok |-> TRUE, pf |-> ProjectFields(raw)]
    ELSE IF raw.shape = "flat" /\ NonEmptyProject(ProjectFields(raw))
    THEN [ok |-> TRUE, pf |-> ProjectFields(raw)]
    ELSE [ok |-> FALSE, pf |-> ZeroProjectFlat]

\* The pattern the schema documents for the key attribute:
\* ^[a-z0-9]{2,}(-[a-z0-9]+)*$, matched against the characters of a key.
LowerAlnum ==
    {"a", "b", "c", "d", "e", "f", "g", "h", "i", "j", "k", "l", "m", "n", "o",
     "p", "q", "r", "s", "t", "u", "v", "w", "x", "y", "z",
     "0", "1", "2", "3", "4", "5", "6", "7", "8", "9"}

\* cs split at every "-"
RECURSIVE SplitAtHyphen(_, _)
SplitAtHyphen(cs, seg) ==
    IF cs = <<>> THEN <<seg>>
    ELSE IF Head(cs) = "-" THEN <<seg>> \o SplitAtHyphen(Tail(cs), <<>>)
    ELSE SplitAtHyphen(Tail(cs), Append(seg, Head(cs)))

MatchesKeyPattern(cs) ==
    LET segs == SplitAtHyphen(cs, <<>>)
    IN  /\ Len(segs[1]) >= 2
        /\ \A i \in 1..Len(segs) :
              /\ segs[i] # <<>>
              /\ \A j \in 1..Len(segs[i]) : segs[i][j] \in LowerAlnum

\* the characters of the keys that plans and responses use
KeyChars(key) ==
    CASE key = "k" -> <<"k">>
      [] key = "k2" -> <<"k", "2">>
      [] key = "ab-1" -> <<"a", "b", "-", "1">>
      [] key = "ab-" -> <<"a", "b", "-">>
      [] key = "Ab" -> <<"A", "b">>
      [] OTHER -> <<>>

firstNonEmptyStringTF(server, plan) ==
    IF server # "" THEN server
    ELSE IF IsSet(plan) /\ plan # "" THEN plan
    ELSE Null

\* strings.Split(strings.TrimRight(loc, "/"), "/"), last element
LastSegment(loc) == loc[Len(loc)]

ProjectModel(id, name, key, protected, ccr) ==
    [id |-> id, name |-> name, key |-> key, protected |-> protected,
     copy_content_ref |-> ccr]

BoolTF(b) == IF b THEN "true" ELSE "false"

projectCreate(plan, rs) ==
    LET r1 == rs[1]
        body == [name |-> plan.name, key |-> plan.key,
                 protected |-> IF IsSet(plan.protected)
                               THEN Some(plan.protected) ELSE None,
                 copyContentRef |-> IF IsSet(plan.copy_content_ref)
                                       /\ plan.copy_content_ref # ""
                                    THEN Some(plan.copy_content_ref) ELSE None]
        post == Req("POST", "projects", body, r1)
        parsed == parseProjectJSON(r1.body).pf
        pf1 == IF parsed.id = "" /\ r1.location # NoLocation
               THEN [parsed EXCEPT !.id = LastSegment(r1.location)]
               ELSE parsed
        hydrate == pf1.id # ""
        r2 == rs[2]
        get == Req("GET", "projects/id", NoBody, r2)
        p2 == parseProjectJSON(r2.body)
        pf == IF hydrate /\ r2.status # NetErr /\ r2.status < 300 /\ p2.ok
              THEN p2.pf ELSE pf1
        protectedTF == IF IsSome(pf.protected) THEN BoolTF(Get(pf.protected))
                       ELSE IF IsSet(plan.protected) THEN plan.protected
                       ELSE Null
        redirect == IF Is3xx(r1.status)
                    THEN <<Diag("warning", "Create Project returned redirect",
                                r1.status, NoBody, r1.location)>>
                    ELSE <<>>
    IN  IF r1.status = NetErr
        THEN Result("none", NullState,
                    <<Errorf("Error creating project", r1)>>, <<post>>)
        ELSE IF r1.status >= 300
        THEN Result("none", NullState,
                    redirect \o <<Diag("error", "Create Project failed",
                                       r1.status, r1.body, NoLocation)>>,
                    <<post>>)
        ELSE Result("set",
                    ProjectModel(pf.id,
                                 firstNonEmptyStringTF(pf.name, plan.name),
                                 firstNonEmptyStringTF(pf.key, plan.key),
                                 protectedTF,
                                 plan.copy_content_ref),
                    <<>>,
                    IF hydrate THEN <<post, get>> ELSE <<post>>)

\* projectRead with a plausible slip: every status from 400 up is handled
\* like 404
projectRead_ErrorMeansGone(st, rs) ==
    LET r1 == rs[1]
        get == Req("GET", "projects/id", NoBody, r1)
        p == parseProjectJSON(r1.body)
    IN  IF r1.status = NetErr
        THEN Result("none", st, <<Errorf("Error reading project", r1)>>, <<get>>)
        ELSE IF r1.status >= 400
        THEN Result("remove", NullState, <<>>, <<get>>)
        ELSE IF Is3xx(r1.status)
        THEN Result("none", st,
                    <<Diag("warning", "Get Project returned redirect",
                           r1.status, NoBody, r1.location)>>, <<get>>)
        ELSE IF ~p.ok
        THEN Result("none", st,
                    <<Diag("warning", "Project parsing failed (preserving state)",
                           NoStatus, NoBody, NoLocation)>>, <<get>>)
        ELSE Result("set",
                    [st EXCEPT !.name = firstNonEmptyStringTF(p.pf.name, st.name),
                               !.key = firstNonEmptyStringTF(p.pf.key, st.key),
                               !.protected = IF IsSome(p.pf.protected)
                                             THEN BoolTF(Get(p.pf.protected))
                                             ELSE st.protected],
                    <<>>, <<get>>)

projectRead(st, rs) ==
    LET r1 == rs[1]
        get == Req("GET", "projects/id", NoBody, r1)
        p == parseProjectJSON(r1.body)
        warn(summary) == Result("none", st,
                                <<Diag("warning", summary, r1.status, r1.body,
                                       NoLocation)>>, <<get>>)
    IN  IF r1.status = NetErr
        THEN Result("none", st, <<Errorf("Error reading project", r1)>>, <<get>>)
        ELSE IF r1.status = StatusNotFound
        THEN Result("remove", NullState, <<>>, <<get>>)
        ELSE IF Is3xx(r1.status)
        THEN Result("none", st,
                    <<Diag("warning", "Get Project returned redirect",
                           r1.status, NoBody, r1.location)>>, <<get>>)
        ELSE IF r1.status >= 500
        THEN warn("Get Project failed (5xx, preserving state)")
        ELSE IF r1.status >= 400
        THEN warn("Get Project returned 4xx (preserving state)")
        ELSE IF ~p.ok
        THEN Result("none", st,
                    <<Diag("warning", "Project parsing failed (preserving state)",
                           NoStatus, NoBody, NoLocation)>>, <<get>>)
        ELSE Result("set",
                    [st EXCEPT !.name = firstNonEmptyStringTF(p.pf.name, st.name),
                               !.key = firstNonEmptyStringTF(p.pf.key, st.key),
                               !.protected = IF IsSome(p.pf.protected)
                                             THEN BoolTF(Get(p.pf.protected))
                                             ELSE st.protected],
                    <<>>, <<get>>)

\* projectUpdate with a plausible slip: copy_content_ref is sent and stored as
\* a Create does
projectUpdate_SendsCopyRef(plan, st, rs) ==
    LET r1 == rs[1]
        protectedVal == IF IsSet(plan.protected) THEN plan.protected
                        ELSE IF IsSet(st.protected) THEN st.protected
                        ELSE "false"
        payload == [name |-> plan.name, key |-> plan.key,
                    protected |-> Some(protectedVal),
                    copyContentRef |-> IF IsSet(plan.copy_content_ref)
                                       THEN Some(plan.copy_content_ref) ELSE None]
        put1 == Req("PUT", "projects/id", payload, r1)
        retry == r1.status = StatusUnauthorized
        r2 == rs[2]
        put2 == Req("PUT", "projects/id", payload, r2)
        res == IF retry THEN r2 ELSE r1
        reqs == IF retry THEN <<put1, put2>> ELSE <<put1>>
        pf == parseProjectJSON(res.body).pf
    IN  IF r1.status = NetErr
        THEN Result("none", st, <<Errorf("Error updating project", r1)>>, <<put1>>)
        ELSE IF Is3xx(r1.status)
        THEN Result("none", st,
                    <<Diag("error", "Update Project returned redirect",
                           r1.status, NoBody, r1.location)>>, <<put1>>)
        ELSE IF retry /\ r2.status = NetErr
        THEN Result("none", st,
                    <<Errorf("Error updating project (retry)", r2)>>, reqs)
        ELSE IF res.status >= 300
        THEN Result("none", st,
                    <<Diag("error", "Update Project failed", res.status,
                           res.body, NoLocation)>>, reqs)
        ELSE Result("set",
                    [st EXCEPT !.name = firstNonEmptyStringTF(pf.name, plan.name),
                               !.key = firstNonEmptyStringTF(pf.key, plan.key),
                               !.protected = IF IsSome(pf.protected)
                                             THEN BoolTF(Get(pf.protected))
                                             ELSE protectedVal,
                               !.copy_content_ref = plan.copy_content_ref],
                    <<>>, reqs)

\* projectUpdate with a plausible slip: every refusal of the first PUT is
\* retried, not only a 401
projectUpdate_RetriesAnyRefusal(plan, st, rs) ==
    LET r1 == rs[1]
        protectedVal == IF IsSet(plan.protected) THEN plan.protected
                        ELSE IF IsSet(st.protected) THEN st.protected
                        ELSE "false"
        payload == [name |-> plan.name, key |-> plan.key,
                    protected |-> Some(protectedVal), copyContentRef |-> None]
        put1 == Req("PUT", "projects/id", payload, r1)
        retry == r1.status >= 400
        r2 == rs[2]
        put2 == Req("PUT", "projects/id", payload, r2)
        res == IF retry THEN r2 ELSE r1
        reqs == IF retry THEN <<put1, put2>> ELSE <<put1>>
        pf == parseProjectJSON(res.body).pf
    IN  IF r1.status = NetErr
        THEN Result("none", st, <<Errorf("Error updating project", r1)>>, <<put1>>)
        ELSE IF Is3xx(r1.status)
        THEN Result("none", st,
                    <<Diag("error", "Update Project returned redirect",
                           r1.status, NoBody, r1.location)>>, <<put1>>)
        ELSE IF retry /\ r2.status = NetErr
        THEN Result("none", st,
                    <<Errorf("Error updating project (retry)", r2)>>, reqs)
        ELSE IF res.status >= 300
        THEN Result("none", st,
                    <<Diag("error", "Update Project failed", res.status,
                           res.body, NoLocation)>>, reqs)
        ELSE Result("set",
                    [st EXCEPT !.name = firstNonEmptyStringTF(pf.name, plan.name),
                               !.key = firstNonEmptyStringTF(pf.key, plan.key),
                               !.protected = IF IsSome(pf.protected)
                                             THEN BoolTF(Get(pf.protected))
                                             ELSE protectedVal],
                    <<>>, reqs)

projectUpdate(plan, st, rs) ==
    LET r1 == rs[1]
        protectedVal == IF IsSet(plan.protected) THEN plan.protected
                        ELSE IF IsSet(st.protected) THEN st.protected
                        ELSE "false"
        payload == [name |-> plan.name, key |-> plan.key,
                    protected |-> Some(protectedVal), copyContentRef |-> None]
        put1 == Req("PUT", "projects/id", payload, r1)
        retry == r1.status = StatusUnauthorized
        r2 == rs[2]
        put2 == Req("PUT", "projects/id", payload, r2)
        res == IF retry THEN r2 ELSE r1
        reqs == IF retry THEN <<put1, put2>> ELSE <<put1>>
        pf == parseProjectJSON(res.body).pf
    IN  IF r1.status = NetErr
        THEN Result("none", st, <<Errorf("Error updating project", r1)>>, <<put1>>)
        ELSE IF Is3xx(r1.status)
        THEN Result("none", st,
                    <<Diag("error", "Update Project returned redirect",
                           r1.status, NoBody, r1.location)>>, <<put1>>)
        ELSE IF retry /\ r2.status = NetErr
        THEN Result("none", st,
                    <<Errorf("Error updating project (retry)", r2)>>, reqs)
        ELSE IF res.status >= 300
        THEN Result("none", st,
                    <<Diag("error", "Update Project failed", res.status,
                           res.body, NoLocation)>>, reqs)
        ELSE Result("set",
                    [st EXCEPT !.name = firstNonEmptyStringTF(pf.name, plan.name),
                               !.key = firstNonEmptyStringTF(pf.key, plan.key),
                               !.protected = IF IsSome(pf.protected)
                                             THEN BoolTF(Get(pf.protected))
                                             ELSE protectedVal],
                    <<>>, reqs)

\* simpleDelete with a plausible slip: 404 is not exempted from the failures
simpleDelete_NotFoundFails(st, rs, target, errSummary, warnSummary) ==
    LET r1 == rs[1]
        del == Req("DELETE", target, NoBody, r1)
    IN  IF r1.status = NetErr
        THEN Result("none", st, <<Errorf(errSummary, r1)>>, <<del>>)
        ELSE IF r1.status >= 300
        THEN Result("none", st,
                    <<Diag("error", warnSummary, r1.status, r1.body,
                           NoLocation)>>, <<del>>)
        ELSE Result("remove", NullState, <<>>, <<del>>)

\* Delete of a project and of a group: one DELETE request.
simpleDelete(st, rs, target, errSummary, warnSummary) ==
    LET r1 == rs[1]
        del == Req("DELETE", target, NoBody, r1)
    IN  IF r1.status = NetErr
        THEN Result("none", st, <<Errorf(errSummary, r1)>>, <<del>>)
        ELSE IF r1.status >= 300 /\ r1.status # StatusNotFound
        THEN Result("remove", NullState,
                    <<Diag("warning", warnSummary, r1.status, r1.body,
                           NoLocation)>>, <<del>>)
        ELSE Result("remove", NullState, <<>>, <<del>>)

projectDelete(st, rs) ==
    simpleDelete(st, rs, "projects/id", "Error deleting project",
                 "Delete Project not confirmed")

-----------------------------------------------------------------------------
(* Strings in lists are ordered as sort.Strings orders them (byte order). *)

Lex == <<"A", "B", "g1", "g2", "g3", "p1", "p2">>

Rank(s) == CHOOSE i \in 1..Len(Lex) : Lex[i] = s

RECURSIVE Insert(_, _)
Insert(x, sorted) ==
    IF sorted = <<>> THEN <<x>>
    ELSE IF Rank(x) <= Rank(Head(sorted)) THEN <<x>> \o sorted
    ELSE <<Head(sorted)>> \o Insert(x, Tail(sorted))

RECURSIVE SortStrings(_)
SortStrings(xs) ==
    IF xs = <<>> THEN <<>> ELSE Insert(Head(xs), SortStrings(Tail(xs)))

\* the loops that copy a plan's list, skipping null, unknown and empty entries
NonEmptyValues(xs) == SelectSeq(xs, LAMBDA v : IsSet(v) /\ v # "")

\* json.Unmarshal into a struct: any JSON object decodes (absent fields keep
\* their zero value); an array or a body that is not JSON does not.
IsObject(raw) == raw.shape \in {"flat", "wrapped", "object", "envelope"}

Field(raw, f, zero) == IF f \in DOMAIN raw THEN raw[f] ELSE zero

-----------------------------------------------------------------------------
(* Group *)

GroupItem(id, name, description, permissions) ==
    [id |-> id, name |-> name, description |-> description,
     permissions |-> permissions]

UnmarshalGroupItem(raw) ==
    GroupItem(Field(raw, "id", ""), Field(raw, "name", ""),
              Field(raw, "description", None), Field(raw, "permissions", None))

normalizePerms_AsGiven(in) == in

normalizePerms(in) == SortStrings(in)

\* a nil permissions slice becomes the empty slice
PermsOrEmpty(m) == IF IsSome(m) THEN Get(m) ELSE <<>>

GroupModel(id, name, description, permissions) ==
    [id |-> id, name |-> name, description |-> description,
     permissions |-> permissions]

GroupBody(plan) ==
    [name |-> plan.name,
     description |-> IF IsSet(plan.description)
                     THEN Some(plan.description) ELSE None,
     permissions |-> normalizePerms(NonEmptyValues(plan.permissions))]

\* GroupStateFrom with a plausible slip: with no description in the response
\* and none planned, the description is left null
GroupStateFrom_NullDescription(item, body) ==
    GroupModel(item.id, item.name,
               IF IsSome(item.description) THEN Get(item.description)
               ELSE IF IsSome(body.description) THEN Get(body.description)
               ELSE Null,
               normalizePerms(PermsOrEmpty(item.permissions)))

\* Create and Update build the state in the same way from the response.
GroupStateFrom(item, body) ==
    GroupModel(item.id, item.name,
               IF IsSome(item.description) THEN Get(item.description)
               ELSE IF IsSome(body.description) THEN Get(body.description)
               ELSE "",
               normalizePerms(PermsOrEmpty(item.permissions)))

\* groupWrite with a plausible slip: only statuses from 400 up are refused
groupWrite_From400(method, target, plan, prior, rs, errSummary, failSummary, parseSummary) ==
    LET r1 == rs[1]
        body == GroupBody(plan)
        req == Req(method, target, body, r1)
    IN  IF r1.status = NetErr
        THEN Result("none", prior, <<Errorf(errSummary, r1)>>, <<req>>)
        ELSE IF r1.status >= 400
        THEN Result("none", prior,
                    <<Diag("error", failSummary, r1.status, r1.body, NoLocation)>>,
                    <<req>>)
        ELSE IF ~IsObject(r1.body)
        THEN Result("none", prior,
                    <<Diag("error", parseSummary, NoStatus, NoBody, NoLocation)>>,
                    <<req>>)
        ELSE Result("set", GroupStateFrom(UnmarshalGroupItem(r1.body), body),
                    <<>>, <<req>>)

groupWrite(method, target, plan, prior, rs, errSummary, failSummary, parseSummary) ==
    LET r1 == rs[1]
        body == GroupBody(plan)
        req == Req(method, target, body, r1)
    IN  IF r1.status = NetErr
        THEN Result("none", prior, <<Errorf(errSummary, r1)>>, <<req>>)
        ELSE IF r1.status >= 300
        THEN Result("none", prior,
                    <<Diag("error", failSummary, r1.status, r1.body, NoLocation)>>,
                    <<req>>)
        ELSE IF ~IsObject(r1.body)
        THEN Result("none", prior,
                    <<Diag("error", parseSummary, NoStatus, NoBody, NoLocation)>>,
                    <<req>>)
        ELSE Result("set", GroupStateFrom(UnmarshalGroupItem(r1.body), body),
                    <<>>, <<req>>)

groupCreate(plan, rs) ==
    groupWrite("POST", "groups", plan, NullState, rs, "Error creating Group",
               "Create Group fallo", "Error parsing Create Group response")

\* groupUpdate with a plausible slip: a PUT answered 404 is taken to mean the
\* group is gone, as a Read would
groupUpdate_NotFoundRemoves(plan, st, rs) ==
    IF rs[1].status = StatusNotFound
    THEN Result("remove", NullState, <<>>, <<Req("PUT", "groups/id", GroupBody(plan), rs[1])>>)
    ELSE groupWrite("PUT", "groups/id", plan, st, rs, "Error updating Group",
                    "Update Group fallo", "Error parsing Update Group response")

groupUpdate(plan, st, rs) ==
    groupWrite("PUT", "groups/id", plan, st, rs, "Error updating Group",
               "Update Group fallo", "Error parsing Update Group response")

groupDelete(st, rs) ==
    simpleDelete(st, rs, "groups/id", "Error deleting Group",
                 "Delete Group no confirmado")

\* listAllGroups: pages 1, 2, 3, ... of the group listing.  rs[p] is the
\* backend's answer to the request for page p.
WalkResult(err, items, code, raw, reqs) ==
    [err |-> err, items |-> items, code |-> code, raw |-> raw, reqs |-> reqs]

ListedItem(g) ==
    LET it == UnmarshalGroupItem(g)
    IN  [it EXCEPT !.permissions = Some(PermsOrEmpty(it.permissions))]

ListedItems(raw) ==
    LET res == Field(raw, "results", <<>>)
    IN  [i \in 1..Len(res) |-> ListedItem(res[i])]

\* the query of the request for one page
PageQuery(page) == [perPage |-> 200, page |-> page]

Returned(w) == [done |-> TRUE, result |-> w]

NextPage(all, sent) == [done |-> FALSE, collected |-> all, reqs |-> sent]

\* walkPage with a plausible slip: the records of the page replace the ones
\* collected so far
walkPage_KeepsLastPage(r, page, collected, reqs) ==
    LET sent == reqs \o <<Req("GET", "groups?page", PageQuery(page), r)>>
        all == ListedItems(r.body)
        total == Field(r.body, "total", 0)
        pageSize == Field(r.body, "pageSize", 0)
    IN  IF r.status = NetErr
        THEN Returned(WalkResult(TRUE, <<>>, NetErr, NoBody, sent))
        ELSE IF r.status >= 300 \/ ~IsObject(r.body)
        THEN Returned(WalkResult(TRUE, <<>>, r.status, r.body, sent))
        ELSE IF total = 0 \/ pageSize = 0 \/ Len(all) >= total
        THEN Returned(WalkResult(FALSE, all, r.status, r.body, sent))
        ELSE NextPage(all, sent)

\* walkPage with a plausible slip: a page without records ends the walk
walkPage_EndsOnEmptyPage(r, page, collected, reqs) ==
    LET sent == reqs \o <<Req("GET", "groups?page", PageQuery(page), r)>>
        all == collected \o ListedItems(r.body)
        total == Field(r.body, "total", 0)
        pageSize == Field(r.body, "pageSize", 0)
    IN  IF r.status = NetErr
        THEN Returned(WalkResult(TRUE, <<>>, NetErr, NoBody, sent))
        ELSE IF r.status >= 300 \/ ~IsObject(r.body)
        THEN Returned(WalkResult(TRUE, <<>>, r.status, r.body, sent))
        ELSE IF total = 0 \/ pageSize = 0 \/ Len(all) >= total
                \/ ListedItems(r.body) = <<>>
        THEN Returned(WalkResult(FALSE, all, r.status, r.body, sent))
        ELSE NextPage(all, sent)

\* walkPage with a plausible slip: a page that fails ends the walk with the
\* records collected so far
walkPage_PartialOnFailure(r, page, collected, reqs) ==
    LET sent == reqs \o <<Req("GET", "groups?page", PageQuery(page), r)>>
        all == collected \o ListedItems(r.body)
        total == Field(r.body, "total", 0)
        pageSize == Field(r.body, "pageSize", 0)
    IN  IF r.status = NetErr
        THEN Returned(WalkResult(collected = <<>>, collected, NetErr, NoBody, sent))
        ELSE IF r.status >= 300 \/ ~IsObject(r.body)
        THEN Returned(WalkResult(collected = <<>>, collected, r.status, r.body, sent))
        ELSE IF total = 0 \/ pageSize = 0 \/ Len(all) >= total
        THEN Returned(WalkResult(FALSE, all, r.status, r.body, sent))
        ELSE NextPage(all, sent)

\* one turn of the loop of listAllGroups: the request for a page, answered by r
walkPage(r, page, collected, reqs) ==
    LET sent == reqs \o <<Req("GET", "groups?page", PageQuery(page), r)>>
        all == collected \o ListedItems(r.body)
        total == Field(r.body, "total", 0)
        pageSize == Field(r.body, "pageSize", 0)
    IN  IF r.status = NetErr
        THEN Returned(WalkResult(TRUE, <<>>, NetErr, NoBody, sent))
        ELSE IF r.status >= 300 \/ ~IsObject(r.body)
        THEN Returned(WalkResult(TRUE, <<>>, r.status, r.body, sent))
        ELSE IF total = 0 \/ pageSize = 0 \/ Len(all) >= total
        THEN Returned(WalkResult(FALSE, all, r.status, r.body, sent))
        ELSE NextPage(all, sent)

RECURSIVE walkGroups(_, _, _, _)
\* the walk after one turn of the loop: it has returned, or it goes on
walkOn(turn, rs, page) ==
    IF turn.done THEN turn.result
    ELSE walkGroups(rs, page + 1, turn.collected, turn.reqs)

walkGroups(rs, page, collected, reqs) ==
    walkOn(walkPage(rs[page], page, collected, reqs), rs, page)

listAllGroups(rs) == walkGroups(rs, 1, <<>>, <<>>)

FirstWithID(items, id) ==
    LET hits == {i \in 1..Len(items) : items[i].id = id}
    IN  IF hits = {} THEN None
        ELSE Some(items[CHOOSE i \in hits : \A j \in hits : i <= j])

\* groupRead with a plausible slip: a group missing from the listing is
\* taken to be deleted
groupRead_MissingMeansGone(st, rs) ==
    LET w == listAllGroups(rs)
        found == FirstWithID(w.items, st.id)
        it == Get(found)
    IN  IF w.err
        THEN Result("none", st,
                    <<Diag("error", "Get Group fallo", w.code, w.raw, NoLocation)>>,
                    w.reqs)
        ELSE IF ~IsSome(found)
        THEN Result("remove", NullState, <<>>, w.reqs)
        ELSE Result("set",
                    [st EXCEPT !.name = it.name,
                               !.description = IF IsSome(it.description)
                                               THEN Get(it.description) ELSE "",
                               !.permissions =
                                   normalizePerms(PermsOrEmpty(it.permissions))],
                    <<>>, w.reqs)

groupRead(st, rs) ==
    LET w == listAllGroups(rs)
        found == FirstWithID(w.items, st.id)
        it == Get(found)
    IN  IF w.err
        THEN Result("none", st,
                    <<Diag("error", "Get Group fallo", w.code, w.raw, NoLocation)>>,
                    w.reqs)
        ELSE IF ~IsSome(found)
        THEN Result("none", st,
                    <<Diag("warning", "Get Group no encontrado (se conserva estado)",
                           NoStatus, NoBody, NoLocation)>>, w.reqs)
        ELSE Result("set",
                    [st EXCEPT !.name = it.name,
                               !.description = IF IsSome(it.description)
                                               THEN Get(it.description) ELSE "",
                               !.permissions =
                                   normalizePerms(PermsOrEmpty(it.permissions))],
                    <<>>, w.reqs)

-----------------------------------------------------------------------------
(* Resolving groups: names to identifiers and back (one listing request) *)

ResolveResult(err, out, reqs, text) ==
    [err |-> err, out |-> out, reqs |-> reqs, text |-> text]

\* byName[it.Name] = it.ID over the results in order: the last one wins
LastIndexWith(res, f, v) ==
    CHOOSE i \in 1..Len(res) :
        /\ UnmarshalGroupItem(res[i])[f] = v
        /\ \A j \in 1..Len(res) : UnmarshalGroupItem(res[j])[f] = v => j <= i

HasWith(res, f, v) == \E i \in 1..Len(res) : UnmarshalGroupItem(res[i])[f] = v

\* LookupAll with a plausible slip: the key found is appended, not the value
\* it maps to
RECURSIVE LookupAll_AppendsKey(_, _, _, _)
LookupAll_AppendsKey(keys, res, from, to) ==
    IF keys = <<>> THEN <<>>
    ELSE (IF HasWith(res, from, Head(keys)) THEN <<Head(keys)>> ELSE <<>>)
         \o LookupAll_AppendsKey(Tail(keys), res, from, to)

RECURSIVE LookupAll(_, _, _, _)
LookupAll(keys, res, from, to) ==
    IF keys = <<>> THEN <<>>
    ELSE (IF HasWith(res, from, Head(keys))
          THEN <<UnmarshalGroupItem(res[LastIndexWith(res, from, Head(keys))])[to]>>
          ELSE <<>>) \o LookupAll(Tail(keys), res, from, to)

\* resolveGroups with a plausible slip: a key missing from the listing is an
\* error
resolveGroups_MissingIsError(keys, rs, at, from, to) ==
    LET r == rs[at]
        req == Req("GET", "groups?perPage=500", NoBody, r)
        res == Field(r.body, "results", <<>>)
    IN  IF keys = <<>>
        THEN ResolveResult(FALSE, <<>>, <<>>, NoBody)
        ELSE IF r.status = NetErr
        THEN ResolveResult(TRUE, <<>>, <<req>>, r.body)
        ELSE IF r.status >= 300
        THEN ResolveResult(TRUE, <<>>, <<req>>, r.body)
        ELSE IF ~IsObject(r.body)
        THEN ResolveResult(TRUE, <<>>, <<req>>, NoBody)
        ELSE IF \E i \in 1..Len(keys) : ~HasWith(res, from, keys[i])
        THEN ResolveResult(TRUE, <<>>, <<req>>, TextBody("group not found"))
        ELSE ResolveResult(FALSE, LookupAll(keys, res, from, to), <<req>>, NoBody)

resolveGroups(keys, rs, at, from, to) ==
    LET r == rs[at]
        req == Req("GET", "groups?perPage=500", NoBody, r)
    IN  IF keys = <<>>
        THEN ResolveResult(FALSE, <<>>, <<>>, NoBody)
        ELSE IF r.status = NetErr
        THEN ResolveResult(TRUE, <<>>, <<req>>, r.body)
        ELSE IF r.status >= 300
        THEN ResolveResult(TRUE, <<>>, <<req>>, r.body)
        ELSE IF ~IsObject(r.body)
        THEN ResolveResult(TRUE, <<>>, <<req>>, NoBody)
        ELSE ResolveResult(FALSE,
                           LookupAll(keys, Field(r.body, "results", <<>>), from, to),
                           <<req>>, NoBody)

\* ResolveGroupIDsByName with a plausible slip: a listing that failed
\* resolves to no identifiers
ResolveGroupIDsByName_EmptyOnFailure(names, rs, at) ==
    [resolveGroups(names, rs, at, "name", "id") EXCEPT !.err = FALSE]

\* rs[at] is the answer to the listing request, if one is sent
ResolveGroupIDsByName(names, rs, at) == resolveGroups(names, rs, at, "name", "id")

\* ResolveGroupNamesByID with a plausible slip: the map built from the
\* listing gives each identifier itself, not the group's name
ResolveGroupNamesByID_KeepsIDs(ids, rs, at) == resolveGroups(ids, rs, at, "id", "id")

ResolveGroupNamesByID(ids, rs, at) == resolveGroups(ids, rs, at, "id", "name")

-----------------------------------------------------------------------------
(* Environment *)

EnvItem(id, name, type, key, approvalMode, approvalGroups) ==
    [id |-> id, name |-> name, type |-> type, key |-> key,
     approvalMode |-> approvalMode, approvalGroups |-> approvalGroups]

\* ApprovalGroupIDs with a plausible slip: only the array of strings is
\* understood
ApprovalGroupIDs_StringsOnly(raw) ==
    LET ag == Field(raw, "approvalGroups", [form |-> "absent"])
    IN  IF ag.form = "strings" THEN ag.items ELSE <<>>

\* envItem.UnmarshalJSON: approvalGroups as an array of strings, else as an
\* array of {id, name} objects, else empty.
ApprovalGroupIDs(raw) ==
    LET ag == Field(raw, "approvalGroups", [form |-> "absent"])
    IN  IF ag.form = "strings" THEN ag.items
        ELSE IF ag.form = "objects"
        THEN [i \in 1..Len(ag.items) |-> ag.items[i].id]
        ELSE <<>>

UnmarshalEnvItem(raw) ==
    EnvItem(Field(raw, "id", ""), Field(raw, "name", ""), Field(raw, "type", ""),
            Field(raw, "key", ""), Field(raw, "approvalMode", None),
            ApprovalGroupIDs(raw))

EnvironmentModel(id, name, key, type, approvalMode, approvalGroups) ==
    [id |-> id, name |-> name, key |-> key, type |-> type,
     approval_mode |-> approvalMode, approval_groups |-> approvalGroups]

EnvNames(plan) == SortStrings(NonEmptyValues(plan.approval_groups))

EnvApprovalMode(plan) ==
    IF IsSet(plan.approval_mode) /\ plan.approval_mode # ""
    THEN Some(plan.approval_mode) ELSE None

\* EnvBody with a plausible slip: an empty desired key is sent as it is
EnvBody_KeyAsGiven(plan, groupIDs) ==
    [name |-> plan.name,
     key |-> IF IsSet(plan.key) THEN Some(plan.key) ELSE Some(plan.name),
     type |-> plan.type,
     approvalMode |-> EnvApprovalMode(plan),
     approvalGroups |-> IF groupIDs = <<>> THEN None ELSE Some(groupIDs)]

\* json.Marshal of envCreateUpdateRequest: approvalGroups has omitempty
EnvBody(plan, groupIDs) ==
    [name |-> plan.name,
     key |-> IF IsSet(plan.key) /\ plan.key # ""
             THEN Some(plan.key) ELSE Some(plan.name),
     type |-> plan.type,
     approvalMode |-> EnvApprovalMode(plan),
     approvalGroups |-> IF groupIDs = <<>> THEN None ELSE Some(groupIDs)]

\* Create and Update: resolve, submit, unresolve.  onCreate tells the two
\* apart where they differ (the approval_mode fallback).
environmentWrite(method, target, plan, prior, rs, onCreate, errSummary, failSummary, parseSummary) ==
    LET names == EnvNames(plan)
        res == ResolveGroupIDsByName(names, rs, 1)
        groupIDs == SortStrings(res.out)
        body == EnvBody(plan, groupIDs)
        rSubmit == rs[Len(res.reqs) + 1]
        req == Req(method, target, body, rSubmit)
        item == UnmarshalEnvItem(rSubmit.body)
        back == ResolveGroupNamesByID(item.approvalGroups, rs, Len(res.reqs) + 2)
        namesBack == SortStrings(IF back.err THEN names ELSE back.out)
        warn == IF back.err
                THEN <<Diag("warning", "Could not resolve group names from IDs",
                            NoStatus, back.text, NoLocation)>>
                ELSE <<>>
        mode == IF IsSome(item.approvalMode) THEN Get(item.approvalMode)
                ELSE IF onCreate /\ IsSome(body.approvalMode)
                THEN Get(body.approvalMode)
                ELSE Null
    IN  IF res.err
        THEN Result("none", prior,
                    <<Diag("error", "Error resolving approval_groups (names->IDs)",
                           NoStatus, res.text, NoLocation)>>, res.reqs)
        ELSE IF rSubmit.status = NetErr
        THEN Result("none", prior, <<Errorf(errSummary, rSubmit)>>,
                    res.reqs \o <<req>>)
        ELSE IF rSubmit.status >= 300
        THEN Result("none", prior,
                    <<Diag("error", failSummary, rSubmit.status, rSubmit.body,
                           NoLocation)>>, res.reqs \o <<req>>)
        ELSE IF ~IsObject(rSubmit.body)
        THEN Result("none", prior,
                    <<Diag("error", parseSummary, NoStatus, NoBody, NoLocation)>>,
                    res.reqs \o <<req>>)
        ELSE Result("set",
                    EnvironmentModel(item.id, item.name, item.key, item.type,
                                     mode, namesBack),
                    warn, res.reqs \o <<req>> \o back.reqs)

environmentCreate(plan, rs) ==
    environmentWrite("POST", "environments", plan, NullState, rs, TRUE,
                     "Error creating Environment",
                     "Create Environment fallo",
                     "Error parsing Create Environment response")

environmentUpdate(plan, st, rs) ==
    environmentWrite("PUT", "environments/id", plan, st, rs, FALSE,
                     "Error updating Environment",
                     "Update Environment fallo",
                     "Error parsing Update Environment response")

\* listEnvironments: the listing decodes only as a JSON array of items
listEnvironments(r) ==
    LET req == Req("GET", "environments", NoBody, r)
    IN  IF r.status = NetErr
        THEN [err |-> TRUE, arr |-> <<>>, code |-> NetErr, raw |-> NoBody,
              reqs |-> <<req>>]
        ELSE IF r.status >= 300 \/ r.body.shape # "array"
        THEN [err |-> TRUE, arr |-> <<>>, code |-> r.status, raw |-> r.body,
              reqs |-> <<req>>]
        ELSE [err |-> FALSE,
              arr |-> [i \in 1..Len(r.body.items) |->
                          UnmarshalEnvItem(r.body.items[i])],
              code |-> r.status, raw |-> r.body, reqs |-> <<req>>]

findEnvironmentByID(r, envID) ==
    LET l == listEnvironments(r)
        found == FirstWithID(l.arr, envID)
    IN  IF l.err
        THEN [err |-> TRUE, found |-> None, code |-> l.code, raw |-> l.raw,
              reqs |-> l.reqs]
        ELSE IF IsSome(found)
        THEN [err |-> FALSE,
              found |-> Some([Get(found) EXCEPT
                                 !.approvalGroups = SortStrings(@)]),
              code |-> l.code, raw |-> l.raw, reqs |-> l.reqs]
        ELSE [err |-> TRUE, found |-> None, code |-> StatusNotFound,
              raw |-> l.raw, reqs |-> l.reqs]

\* environmentRead with a plausible slip: when the names cannot be resolved
\* the record is stored with no approval groups
environmentRead_DropsGroupsOnFailure(st, rs) ==
    LET f == findEnvironmentByID(rs[1], st.id)
        it == Get(f.found)
        back == ResolveGroupNamesByID(it.approvalGroups, rs, 2)
        names == SortStrings(IF back.err
                             THEN <<>>
                             ELSE back.out)
        warn == IF back.err
                THEN <<Diag("warning", "Could not resolve group names from IDs",
                            NoStatus, NoBody, NoLocation)>>
                ELSE <<>>
    IN  IF f.err /\ f.code = StatusNotFound
        THEN Result("none", st,
                    <<Diag("warning",
                           "Get Environment not found (se conserva estado)",
                           NoStatus, NoBody, NoLocation)>>, f.reqs)
        ELSE IF f.err
        THEN Result("none", st,
                    <<Diag("error", "Get Environment fallo", f.code, f.raw,
                           NoLocation)>>, f.reqs)
        ELSE Result("set",
                    [st EXCEPT !.name = it.name, !.key = it.key,
                               !.type = it.type,
                               !.approval_mode = IF IsSome(it.approvalMode)
                                                 THEN Get(it.approvalMode)
                                                 ELSE Null,
                               !.approval_groups = names],
                    warn, f.reqs \o back.reqs)

environmentRead(st, rs) ==
    LET f == findEnvironmentByID(rs[1], st.id)
        it == Get(f.found)
        back == ResolveGroupNamesByID(it.approvalGroups, rs, 2)
        names == SortStrings(IF back.err
                             THEN NonEmptyValues(st.approval_groups)
                             ELSE back.out)
        warn == IF back.err
                THEN <<Diag("warning", "Could not resolve group names from IDs",
                            NoStatus, NoBody, NoLocation)>>
                ELSE <<>>
    IN  IF f.err /\ f.code = StatusNotFound
        THEN Result("none", st,
                    <<Diag("warning",
                           "Get Environment not found (se conserva estado)",
                           NoStatus, NoBody, NoLocation)>>, f.reqs)
        ELSE IF f.err
        THEN Result("none", st,
                    <<Diag("error", "Get Environment fallo", f.code, f.raw,
                           NoLocation)>>, f.reqs)
        ELSE Result("set",
                    [st EXCEPT !.name = it.name, !.key = it.key,
                               !.type = it.type,
                               !.approval_mode = IF IsSome(it.approvalMode)
                                                 THEN Get(it.approvalMode)
                                                 ELSE Null,
                               !.approval_groups = names],
                    warn, f.reqs \o back.reqs)

\* Delete of an environment: up to MaxTries DELETE requests
MaxTries == 3

\* deleteAttempts with a plausible slip: a transport failure leaves
\* lastStatus and lastBody as the attempt before set them
LastAnswered(sent) ==
    LET idx == {j \in 1..Len(sent) : sent[j].resp.status # NetErr}
    IN  IF idx = {}
        THEN [status |-> NetErr, body |-> NoBody, location |-> NoLocation]
        ELSE sent[CHOOSE j \in idx : \A k \in idx : k <= j].resp

RECURSIVE deleteAttempts_StaleOnTransportError(_, _, _, _)
deleteAttempts_StaleOnTransportError(st, rs, i, reqs) ==
    LET r == rs[i]
        sent == reqs \o <<Req("DELETE", "environments/id", NoBody, r)>>
        lastStatus == LastAnswered(sent).status
        lastBody == LastAnswered(sent).body
    IN  IF r.status # NetErr
           /\ (lastStatus = StatusNotFound \/ (lastStatus >= 200 /\ lastStatus < 300))
        THEN Result("remove", NullState, <<>>, sent)
        ELSE IF i < MaxTries
        THEN deleteAttempts_StaleOnTransportError(st, rs, i + 1, sent)
        ELSE Result("none", st,
                    <<Diag("error",
                           "Delete Environment no confirmado tras reintentos",
                           lastStatus, lastBody, NoLocation)>>, sent)

\* deleteAttempts with a plausible slip: a transport failure ends the loop
\* instead of counting as a failed attempt
RECURSIVE deleteAttempts_StopsOnTransportError(_, _, _, _)
deleteAttempts_StopsOnTransportError(st, rs, i, reqs) ==
    LET r == rs[i]
        lastStatus == r.status
        lastBody == r.body
        sent == reqs \o <<Req("DELETE", "environments/id", NoBody, r)>>
    IN  IF lastStatus = StatusNotFound \/ (lastStatus >= 200 /\ lastStatus < 300)
        THEN Result("remove", NullState, <<>>, sent)
        ELSE IF i < MaxTries /\ lastStatus # NetErr
        THEN deleteAttempts_StopsOnTransportError(st, rs, i + 1, sent)
        ELSE Result("none", st,
                    <<Diag("error",
                           "Delete Environment no confirmado tras reintentos",
                           lastStatus, lastBody, NoLocation)>>, sent)

RECURSIVE deleteAttempts(_, _, _, _)
deleteAttempts(st, rs, i, reqs) ==
    LET r == rs[i]
        lastStatus == r.status
        lastBody == r.body
        sent == reqs \o <<Req("DELETE", "environments/id", NoBody, r)>>
    IN  IF lastStatus = StatusNotFound \/ (lastStatus >= 200 /\ lastStatus < 300)
        THEN Result("remove", NullState, <<>>, sent)
        ELSE IF i < MaxTries
        THEN deleteAttempts(st, rs, i + 1, sent)
        ELSE Result("none", st,
                    <<Diag("error",
                           "Delete Environment no confirmado tras reintentos",
                           lastStatus, lastBody, NoLocation)>>, sent)

environmentDelete(st, rs) == deleteAttempts(st, rs, 1, <<>>)

-----------------------------------------------------------------------------
(* The inputs: plans, and the answers a backend may give *)

Resp(status, body, location) ==
    [status |-> status, body |-> body, location |-> location]

\* what any request may meet: a transport failure, a redirect, 401, 404, 5xx
Failures ==
    {Resp(NetErr, TextBody("dial tcp: timeout"), NoLocation),
     Resp(301, TextBody("e1"), <<"api", "moved">>),
     Resp(StatusUnauthorized, TextBody("e1"), NoLocation),
     Resp(StatusNotFound, TextBody("e1"), NoLocation),
     Resp(500, TextBody("e1"), NoLocation)}

Unparseable == Resp(200, TextBody("<html>"), NoLocation)

ProjectDoc(shape, id, name, key, protected) ==
    [shape |-> shape, id |-> id, name |-> name, key |-> key,
     protected |-> protected]

ProjectDocs ==
    {ProjectDoc("flat", id, nk[1], nk[2], pr) :
        id \in {"", "a", "b"}, nk \in {<<"", "">>, <<"x", "k2">>},
        pr \in {None, Some(TRUE)}}
    \cup {ProjectDoc("wrapped", id, "x", "k2", None) : id \in {"", "a"}}

ProjectResponses ==
    Failures \cup {Unparseable}
    \cup {Resp(200, d, NoLocation) : d \in ProjectDocs}
    \cup {Resp(200, TextBody(""), <<"api", "projects", "b">>),
          Resp(200, ProjectDoc("flat", "", "x", "k2", None),
               <<"api", "projects", "b">>)}

ProjectPlans ==
    {[name |-> "x", key |-> "k", protected |-> Unknown, copy_content_ref |-> Null],
     [name |-> "x", key |-> "k2", protected |-> "true", copy_content_ref |-> "t1"],
     [name |-> "y", key |-> "k2", protected |-> Unknown, copy_content_ref |-> Null]}

GroupDoc(id, name, description, permissions) ==
    [shape |-> "object", id |-> id, name |-> name, description |-> description,
     permissions |-> permissions]

GroupDocs ==
    {GroupDoc(id, "A", d, p) :
        id \in {"", "g1", "g2"}, d \in {None, Some("d2")},
        p \in {None, Some(<<"p2", "p1">>)}}
    \cup {[shape |-> "object"]}

GroupResponses ==
    Failures \cup {Unparseable} \cup {Resp(200, d, NoLocation) : d \in GroupDocs}

GroupPlans ==
    {[name |-> "A", description |-> Null, permissions |-> <<"p2", "p1">>],
     [name |-> "A", description |-> "d1", permissions |-> <<"p1", "", "p1">>],
     [name |-> "B", description |-> "d1", permissions |-> <<"p2", "p1">>]}

ListDoc(results, pageSize, total) ==
    [shape |-> "envelope", results |-> results, pageSize |-> pageSize,
     total |-> total]

ListedGroups ==
    {GroupDoc("g1", "B", Some("d2"), None),
     GroupDoc("g2", "A", None, Some(<<"p2", "p1">>))}

GroupPages ==
    {ListDoc(res, ps, 2) : res \in {<<>>} \cup {<<g>> : g \in ListedGroups},
                           ps \in {0, 1}}
    \cup {[shape |-> "array", items |-> <<>>]}

GroupPageResponses ==
    {Resp(NetErr, TextBody("dial tcp: timeout"), NoLocation),
     Resp(StatusNotFound, TextBody("e1"), NoLocation),
     Resp(500, TextBody("e1"), NoLocation), Unparseable}
    \cup {Resp(200, d, NoLocation) : d \in GroupPages}

\* the walk of the group listing is followed for at most MaxPages pages
MaxPages == 2

\* the single-page listing the resolver asks for
GroupListings ==
    {Resp(NetErr, TextBody("dial tcp: timeout"), NoLocation),
     Resp(500, TextBody("e1"), NoLocation),
     Resp(200, ListDoc(<<GroupDoc("g2", "A", None, None),
                         GroupDoc("g1", "B", None, None)>>, 500, 2), NoLocation),
     Resp(200, ListDoc(<<GroupDoc("g1", "B", None, None)>>, 500, 1), NoLocation),
     Resp(200, ListDoc(<<>>, 500, 0), NoLocation),
     Resp(200, TextBody("<html>"), NoLocation)}

EnvDoc(id, name, key, approvalMode, approvalGroups) ==
    [shape |-> "object", id |-> id, name |-> name, type |-> "brms", key |-> key,
     approvalMode |-> approvalMode, approvalGroups |-> approvalGroups]

EnvDocs ==
    {EnvDoc(id, "x", "x", None, [form |-> "absent"]) : id \in {"", "e1", "e2"}}
    \cup {EnvDoc("e1", "y", "k", Some("require_any"), ag) :
            ag \in {[form |-> "strings", items |-> <<"g2", "g1">>],
                    [form |-> "objects",
                     items |-> <<[id |-> "g1", name |-> "B"]>>]}}

EnvResponses ==
    Failures \cup {Unparseable} \cup {Resp(200, d, NoLocation) : d \in EnvDocs}

EnvListings ==
    {Resp(NetErr, TextBody("dial tcp: timeout"), NoLocation),
     Resp(StatusNotFound, TextBody("e1"), NoLocation),
     Resp(500, TextBody("e1"), NoLocation), Unparseable,
     Resp(200, [shape |-> "array", items |-> <<>>], NoLocation),
     Resp(200, ListDoc(<<EnvDoc("e1", "x", "x", None, [form |-> "absent"])>>, 10, 1),
          NoLocation)}
    \cup {Resp(200, [shape |-> "array", items |-> <<d>>], NoLocation) :
            d \in {e \in EnvDocs : e.id = "e1"}}

EnvPlans ==
    {[name |-> "x", key |-> Null, type |-> "brms", approval_mode |-> Null,
      approval_groups |-> <<>>],
     [name |-> "x", key |-> "", type |-> "brms", approval_mode |-> "require_any",
      approval_groups |-> <<"B", "A">>],
     [name |-> "y", key |-> "k", type |-> "brms", approval_mode |-> Null,
      approval_groups |-> <<"g1">>]}

DeleteResponses ==
    {Resp(NetErr, TextBody("dial tcp: timeout"), NoLocation),
     Resp(500, TextBody("e1"), NoLocation),
     Resp(503, TextBody("e2"), NoLocation),
     Resp(StatusNotFound, TextBody("e1"), NoLocation),
     Resp(204, TextBody(""), NoLocation)}

-----------------------------------------------------------------------------
(* The state machine *)

NoCall == [op |-> "none", plan |-> [none |-> TRUE], write |-> "none",
           diags |-> <<>>, reqs |-> <<>>, replay |-> FALSE]

NotGone == [by |-> "none"]

NoCalc == [fn |-> "none"]

Init ==
    /\ kind \in Kinds
    /\ phase = "Desired"
    /\ state = NullState
    /\ createdID = Null
    /\ gone = NotGone
    /\ last = NoCall
    /\ calc = NoCalc

\* A call of a handler: the operation, the plan and the prior state it is given
Call(k, op, plan, st) == [kind |-> k, op |-> op, plan |-> plan, st |-> st]

NoPlan == [none |-> TRUE]

Handle(c, rs) ==
    CASE c.kind = "project" /\ c.op = "Create" -> projectCreate(c.plan, rs)
      [] c.kind = "project" /\ c.op = "Read" -> projectRead(c.st, rs)
      [] c.kind = "project" /\ c.op = "Update" -> projectUpdate(c.plan, c.st, rs)
      [] c.kind = "project" /\ c.op = "Delete" -> projectDelete(c.st, rs)
      [] c.kind = "group" /\ c.op = "Create" -> groupCreate(c.plan, rs)
      [] c.kind = "group" /\ c.op = "Read" -> groupRead(c.st, rs)
      [] c.kind = "group" /\ c.op = "Update" -> groupUpdate(c.plan, c.st, rs)
      [] c.kind = "group" /\ c.op = "Delete" -> groupDelete(c.st, rs)
      [] c.kind = "environment" /\ c.op = "Create" -> environmentCreate(c.plan, rs)
      [] c.kind = "environment" /\ c.op = "Read" -> environmentRead(c.st, rs)
      [] c.kind = "environment" /\ c.op = "Update" ->
            environmentUpdate(c.plan, c.st, rs)
      [] c.kind = "environment" /\ c.op = "Delete" -> environmentDelete(c.st, rs)

\* The answers the backend may give to a request
Answers(req) ==
    IF req.method = "DELETE" THEN DeleteResponses
    ELSE IF req.target \in {"projects", "projects/id"} THEN ProjectResponses
    ELSE IF req.target \in {"groups", "groups/id"} THEN GroupResponses
    ELSE IF req.target = "groups?page" THEN GroupPageResponses
    ELSE IF req.target = "groups?perPage=500" THEN GroupListings
    ELSE IF req.method = "GET" THEN EnvListings
    ELSE EnvResponses

\* No handler sends more requests than this, the group listing walk apart
MaxRequests == 3

RequestCap(c) ==
    IF c.kind = "group" /\ c.op = "Read" THEN MaxPages ELSE MaxRequests

\* A request not yet answered is tried as a transport failure, which ends
\* every handler's sending; the answers are then drawn one request at a time.
Unanswered == Resp(NetErr, NoBody, NoLocation)

Padded(rs, n) == rs \o [i \in 1..n |-> Unanswered]

\* Every way the call can run to its end: each request the handler sends is
\* answered in one of the ways the backend may answer it.
RECURSIVE Outcomes(_, _)
Outcomes(c, rs) ==
    LET cap == RequestCap(c)
        o == Handle(c, Padded(rs, cap + 1 - Len(rs)))
    IN  IF Len(o.reqs) <= Len(rs) THEN {o}
        ELSE IF Len(rs) = cap THEN {}
        ELSE UNION {Outcomes(c, Append(rs, r)) :
                       r \in Answers(o.reqs[Len(rs) + 1])}

FinalStatus(reqs) == reqs[Len(reqs)].resp.status

\* What the plugin framework does with a handler's response: State.Set
\* stores the record, RemoveResource drops it, otherwise the prior state stays.
Commit(op, plan, out) ==
    /\ phase' = IF out.write = "set" THEN "Managed"
                ELSE IF out.write = "remove" THEN "Absent"
                ELSE phase
    /\ state' = IF out.write = "set" THEN out.state
                ELSE IF out.write = "remove" THEN NullState
                ELSE state
    /\ createdID' = IF op = "Create" /\ out.write = "set"
                    THEN out.state.id ELSE createdID
    /\ gone' = IF out.write = "remove" /\ phase = "Managed"
               THEN [by |-> op, id |-> state.id,
                     status |-> FinalStatus(out.reqs),
                     tries |-> Len(out.reqs),
                     error |-> HasError(out.diags)]
               ELSE gone
    /\ last' = [op |-> op, plan |-> plan, write |-> out.write, diags |-> out.diags,
                reqs |-> out.reqs, replay |-> phase = "Absent"]
    /\ UNCHANGED <<kind, calc>>

Plans(k) ==
    IF k = "project" THEN ProjectPlans
    ELSE IF k = "group" THEN GroupPlans
    ELSE EnvPlans

\* Delete is given the tracked record, or, when the orchestrator repeats a
\* Delete that already removed it, the identifier it had.
CanDelete == phase = "Managed" \/ (phase = "Absent" /\ gone.by = "Delete")

DeleteState == IF phase = "Managed" THEN state ELSE [id |-> gone.id]

Create(k) ==
    /\ kind = k /\ phase = "Desired"
    /\ \E plan \in Plans(k) :
          \E out \in Outcomes(Call(k, "Create", plan, NullState), <<>>) :
             Commit("Create", plan, out)

Read(k) ==
    /\ kind = k /\ phase = "Managed"
    /\ \E out \in Outcomes(Call(k, "Read", NoPlan, state), <<>>) :
          Commit("Read", NoPlan, out)

Update(k) ==
    /\ kind = k /\ phase = "Managed"
    /\ \E plan \in Plans(k) :
          \E out \in Outcomes(Call(k, "Update", plan, state), <<>>) :
             Commit("Update", plan, out)

Delete(k) ==
    /\ kind = k /\ CanDelete
    /\ \E out \in Outcomes(Call(k, "Delete", NoPlan, DeleteState), <<>>) :
          Commit("Delete", NoPlan, out)

ProjectCreate == Create("project")
ProjectRead == Read("project")
ProjectUpdate == Update("project")
ProjectDelete == Delete("project")

GroupCreate == Create("group")
GroupRead == Read("group")
GroupUpdate == Update("group")
GroupDelete == Delete("group")

EnvironmentCreate == Create("environment")
EnvironmentRead == Read("environment")
EnvironmentUpdate == Update("environment")
EnvironmentDelete == Delete("environment")

Next ==
    \/ ProjectCreate \/ ProjectRead \/ ProjectUpdate \/ ProjectDelete
    \/ GroupCreate \/ GroupRead \/ GroupUpdate \/ GroupDelete
    \/ EnvironmentCreate \/ EnvironmentRead \/ EnvironmentUpdate
    \/ EnvironmentDelete

Spec == Init /\ [][Next]_vars

-----------------------------------------------------------------------------
(* The listing functions on their own.  The page walker (listAllGroups),   *)
(* the resolvers (ResolveGroupIDsByName, ResolveGroupNamesByID) and the    *)
(* environment decoder (envItem.UnmarshalJSON) are each applied to an      *)
(* input drawn at the start: a backend holding some groups and serving     *)
(* them in pages, or an environment payload.                                *)

MaxWalk == 4        \* the pages one walk is followed for

NotYet == [none |-> TRUE]

NoFault == [at |-> 0]

\* A backend: the groups it holds, the page size it serves and reports
\* (0: it does not page, and sends every group at once), whether it serves
\* the groups ("pages") or stalls with empty pages ("empty"), and the page
\* at which it fails, if any.
Backend(groups, pageSize, serves, fault) ==
    [groups |-> groups, pageSize |-> pageSize, serves |-> serves, fault |-> fault]

PageOf(groups, pageSize, page) ==
    IF pageSize = 0 THEN groups
    ELSE [i \in 1..(IF page * pageSize <= Len(groups)
                    THEN pageSize
                    ELSE IF (page - 1) * pageSize >= Len(groups) THEN 0
                    ELSE Len(groups) - (page - 1) * pageSize)
            |-> groups[(page - 1) * pageSize + i]]

\* the backend's answer to the request for a page
Serve(b, page) ==
    IF b.fault.at = page THEN b.fault.as
    ELSE Resp(200,
              ListDoc(IF b.serves = "empty" THEN <<>>
                      ELSE PageOf(b.groups, b.pageSize, page),
                      b.pageSize, Len(b.groups)),
              NoLocation)

GroupB == GroupDoc("g1", "B", Some("d2"), None)
GroupA == GroupDoc("g2", "A", None, Some(<<"p2", "p1">>))
GroupA3 == GroupDoc("g3", "A", None, None)          \* shares its name with g2
GroupC1 == GroupDoc("g1", "C", None, None)          \* shares its identifier with g1

Holdings ==
    {<<>>, <<GroupB>>, <<GroupB, GroupA>>, <<GroupB, GroupA, GroupA3>>,
     <<GroupA, GroupA3>>, <<GroupB, GroupC1>>}

PageFailures ==
    {Resp(NetErr, TextBody("dial tcp: timeout"), NoLocation),
     Resp(500, TextBody("e1"), NoLocation),
     Unparseable}

Faults == {NoFault} \cup {[at |-> p, as |-> r] : p \in {1, 2}, r \in PageFailures}

Backends ==
    {Backend(gs, ps, sv, f) :
        gs \in Holdings, ps \in {0, 1, 2}, sv \in {"pages", "empty"}, f \in Faults}

WalkStarts ==
    {[fn |-> "walk", backend |-> b, page |-> 1, collected |-> <<>>, reqs |-> <<>>,
      done |-> FALSE, result |-> NotYet] : b \in Backends}

AskedNames == {<<>>, <<"A">>, <<"B">>, <<"A", "B">>, <<"A", "C">>, <<"g1">>}

ResolveStarts ==
    {[fn |-> "resolve", backend |-> b, names |-> ns, step |-> "names", ids |-> <<>>,
      back |-> <<>>, reqs |-> <<>>] :
        b \in {x \in Backends : x.serves = "pages" /\ x.fault.at # 2},
        ns \in AskedNames}

ApprovalGroupForms ==
    {[form |-> "absent"], [form |-> "number"]}
    \cup {[form |-> "strings", items |-> ids] :
             ids \in {<<>>, <<"g1">>, <<"g2", "g1">>}}
    \cup {[form |-> "objects", items |-> os] :
             os \in {<<[id |-> "g2", name |-> "A"], [id |-> "g1", name |-> "B"],
                       [id |-> "g3", name |-> "A"]>>}}

DecodeStarts ==
    {[fn |-> "decode", raw |-> EnvDoc("e1", "y", "k", m, ag), done |-> FALSE,
      item |-> NotYet] :
        m \in {None, Some("require_any")}, ag \in ApprovalGroupForms}

CalcInit ==
    /\ kind = "group"
    /\ phase = "Desired"
    /\ state = NullState
    /\ createdID = Null
    /\ gone = NotGone
    /\ last = NoCall
    /\ calc \in WalkStarts \cup ResolveStarts \cup DecodeStarts

Idle == UNCHANGED <<kind, phase, state, createdID, gone, last>>

\* one turn of the loop of listAllGroups
WalkPage ==
    /\ calc.fn = "walk" /\ ~calc.done /\ calc.page <= MaxWalk
    /\ \E turn \in {walkPage(Serve(calc.backend, calc.page), calc.page,
                              calc.collected, calc.reqs)} :
          calc' = IF turn.done
                  THEN [calc EXCEPT !.done = TRUE, !.result = turn.result,
                                    !.reqs = turn.result.reqs]
                  ELSE [calc EXCEPT !.page = @ + 1, !.collected = turn.collected,
                                    !.reqs = turn.reqs]
    /\ Idle

Resolve ==
    /\ calc.fn = "resolve" /\ calc.step = "names"
    /\ \E res \in {ResolveGroupIDsByName(calc.names,
                                          <<Serve(calc.backend, 1)>>, 1)} :
          calc' = [calc EXCEPT !.step = IF res.err THEN "failed" ELSE "ids",
                               !.ids = res.out, !.reqs = res.reqs]
    /\ Idle

Unresolve ==
    /\ calc.fn = "resolve" /\ calc.step = "ids"
    /\ \E res \in {ResolveGroupNamesByID(calc.ids,
                                          <<Serve(calc.backend, 1)>>, 1)} :
          calc' = [calc EXCEPT !.step = IF res.err THEN "failed" ELSE "back",
                               !.back = res.out, !.reqs = @ \o res.reqs]
    /\ Idle

Decode ==
    /\ calc.fn = "decode" /\ ~calc.done
    /\ calc' = [calc EXCEPT !.done = TRUE, !.item = UnmarshalEnvItem(calc.raw)]
    /\ Idle

CalcNext == WalkPage \/ Resolve \/ Unresolve \/ Decode

CalcSpec == CalcInit /\ [][CalcNext]_vars

-----------------------------------------------------------------------------
(* Operations running at the same time.  After Configure every resource     *)
(* holds the same *Config, whose HTTP field points to the one base client.  *)
(* Two handler calls on different resource instances run interleaved, a     *)
(* step at a time: a call obtains a client from clientNoRedirect(cfg.HTTP), *)
(* sends its next request through it and is answered, and at the end        *)
(* returns.                                                                 *)

\* Configure: cfg := &Config{..., HTTP: &http.Client{}}
ConfiguredHeap == <<BaseClient>>

ConfiguredCfg == [HTTP |-> 1, token |-> Bearer]

\* the calls that run together
SharedCalls ==
    {Call("project", "Update",
          [name |-> "x", key |-> "k2", protected |-> "true",
           copy_content_ref |-> Null],
          ProjectModel("a", "x", "k", "false", Null)),
     Call("group", "Read", NoPlan, GroupModel("g1", "B", "", <<>>)),
     Call("environment", "Delete", NoPlan, [id |-> "e1"])}

\* what the backend answers while they do
SharedAnswers(q) ==
    {r \in Answers(q) : r.status # 200}
    \cup (IF q.target = "groups?page"
          THEN {Resp(200, ListDoc(<<GroupDoc("g1", "B", None, None)>>, 1, 2),
                     NoLocation)}
          ELSE {Resp(200, ProjectDoc("flat", "a", "x", "k2", None), NoLocation)})

Running(c) ==
    [call |-> c, rs |-> <<>>, client |-> 0, ptrs |-> <<>>, sent |-> <<>>,
     done |-> FALSE, out |-> NotYet]

SharedInit ==
    /\ kind = "group"
    /\ phase = "Desired"
    /\ state = NullState
    /\ createdID = Null
    /\ gone = NotGone
    /\ last = NoCall
    /\ calc \in {[fn |-> "shared", cfg |-> ConfiguredCfg, heap |-> ConfiguredHeap,
                  ops |-> <<Running(p[1]), Running(p[2])>>] :
                    p \in {q \in SharedCalls \X SharedCalls : q[1] # q[2]}}

\* the call as far as it has run: the handler, its answers so far
SoFar(op) ==
    Handle(op.call, Padded(op.rs, RequestCap(op.call) + 1 - Len(op.rs)))

WantsRequest(op) ==
    ~op.done /\ Len(op.rs) < RequestCap(op.call) /\ Len(SoFar(op).reqs) > Len(op.rs)

\* the project handlers call clientNoRedirect once and send every request of
\* the call through that client; all other call sites call it per request
OneClientPerCall(c) == c.kind = "project"

\* client := clientNoRedirect(r.cfg.HTTP)
MakeClient(i) ==
    /\ calc.fn = "shared" /\ WantsRequest(calc.ops[i]) /\ calc.ops[i].client = 0
    /\ \E nc \in {copyClient(calc.heap, calc.cfg.HTTP)} :
          calc' = [calc EXCEPT !.heap = nc.heap, !.ops[i].client = nc.ptr]
    /\ Idle

\* client.Do(req): the request goes out under the policy the client has at
\* that moment, and the backend answers
Do(i) ==
    /\ calc.fn = "shared" /\ WantsRequest(calc.ops[i]) /\ calc.ops[i].client # 0
    /\ \E q \in {SoFar(calc.ops[i]).reqs[Len(calc.ops[i].rs) + 1]} :
          \E r \in SharedAnswers(q) :
             calc' = [calc EXCEPT
                         !.ops[i].rs = Append(@, r),
                         !.ops[i].ptrs = Append(@, calc.ops[i].client),
                         !.ops[i].sent =
                             Append(@, [q EXCEPT
                                           !.resp = r,
                                           !.client = calc.heap[calc.ops[i].client]]),
                         !.ops[i].client =
                             IF OneClientPerCall(calc.ops[i].call) THEN @ ELSE 0]
    /\ Idle

\* the handler returns
Return(i) ==
    /\ calc.fn = "shared" /\ ~calc.ops[i].done
    /\ Len(SoFar(calc.ops[i]).reqs) <= Len(calc.ops[i].rs)
    /\ calc' = [calc EXCEPT !.ops[i].done = TRUE, !.ops[i].out = SoFar(calc.ops[i])]
    /\ Idle

SharedNext == \E i \in {1, 2} : MakeClient(i) \/ Do(i) \/ Return(i)

SharedSpec == SharedInit /\ [][SharedNext]_vars

-----------------------------------------------------------------------------
(* The page walker while other clients of the backend create and delete    *)
(* groups of the project *)

MaxChurn == 2       \* the changes other clients make during one walk

\* A walk against a backend that pages and does not fail.  throughout holds
\* the groups the backend has held since the walk began.
ChurnInit ==
    /\ kind = "group"
    /\ phase = "Desired"
    /\ state = NullState
    /\ createdID = Null
    /\ gone = NotGone
    /\ last = NoCall
    /\ calc \in {[fn |-> "walk", backend |-> Backend(gs, ps, "pages", NoFault),
                  page |-> 1, collected |-> <<>>, reqs |-> <<>>, done |-> FALSE,
                  result |-> NotYet, throughout |-> gs, changes |-> 0] :
                    gs \in {<<GroupB, GroupA>>, <<GroupB, GroupA, GroupA3>>},
                    ps \in {1, 2}}

\* between two page requests another client deletes a group: the groups
\* after it move up by one place
GroupDeleted ==
    /\ calc.fn = "walk" /\ ~calc.done /\ calc.reqs # <<>>
    /\ calc.changes < MaxChurn
    /\ \E i \in 1..Len(calc.backend.groups) :
          calc' = [calc EXCEPT
                      !.backend.groups =
                          [j \in 1..(Len(@) - 1) |-> IF j < i THEN @[j] ELSE @[j + 1]],
                      !.throughout =
                          SelectSeq(@, LAMBDA g : g # calc.backend.groups[i]),
                      !.changes = @ + 1]
    /\ Idle

\* between two page requests another client creates a group; the backend
\* lists it at some place, and the groups after it move down by one place
GroupCreated ==
    /\ calc.fn = "walk" /\ ~calc.done /\ calc.reqs # <<>>
    /\ calc.changes < MaxChurn
    /\ \A j \in 1..Len(calc.backend.groups) : calc.backend.groups[j].id # "g9"
    /\ \E i \in 1..(Len(calc.backend.groups) + 1) :
          calc' = [calc EXCEPT
                      !.backend.groups =
                          [j \in 1..(Len(@) + 1) |->
                              IF j < i THEN @[j]
                              ELSE IF j = i THEN GroupDoc("g9", "N", None, None)
                              ELSE @[j - 1]],
                      !.changes = @ + 1]
    /\ Idle

ChurnNext == WalkPage \/ GroupDeleted \/ GroupCreated

ChurnSpec == ChurnInit /\ [][ChurnNext]_vars

-----------------------------------------------------------------------------

(* What the claims speak of *)

\* the request that fetches the resource itself in a Read: the item for a
\* project, the pages of the group listing, the environment listing
IsFetch(q) ==
    q.method = "GET" /\ q.target \in {"projects/id", "groups?page", "environments"}

\* a fetch of the one resource by its identifier, as against a listing
IsDirectFetch(q) == q.method = "GET" /\ q.target = "projects/id"

IsMutating(q) == q.method \in {"POST", "PUT"}

Answered(q) == q.resp.status # NetErr

\* a DELETE attempt that succeeded: 404 or 2xx
DeleteAccepted(q) ==
    q.method = "DELETE" /\ (q.resp.status = StatusNotFound \/ Is2xx(q.resp.status))

\* the body of a 2xx answer cannot be decoded as what the request expects
Undecodable(q) ==
    /\ Is2xx(q.resp.status)
    /\ IF q.target = "projects/id" THEN ~parseProjectJSON(q.resp.body).ok
       ELSE IF q.target = "environments" /\ q.method = "GET"
       THEN q.resp.body.shape # "array"
       ELSE ~IsObject(q.resp.body)

Requests(l) == {l.reqs[i] : i \in 1..Len(l.reqs)}

Tracked == phase = "Managed" /\ state # NullState

-----------------------------------------------------------------------------
(* C1: a Read removes the tracked record if and only if the backend         *)
(* answered 404 to a direct fetch of the resource; every other outcome of a *)
(* Read (5xx, other 4xx, 3xx, transport error, undecodable body, identifier *)
(* missing from a listing) leaves the record tracked.                       *)
C1_ReadRemovesOnlyOnDirect404 ==
    last.op = "Read" =>
        IF \E q \in Requests(last) :
               IsDirectFetch(q) /\ q.resp.status = StatusNotFound
        THEN phase = "Absent" /\ state = NullState
        ELSE Tracked

C1_Witness ==
    /\ last.op = "Read" /\ phase = "Absent"
    /\ \E q \in Requests(last) : IsDirectFetch(q) /\ q.resp.status = StatusNotFound

(* C2: a Read in which the fetch is answered 5xx leaves the tracked record, *)
(* every attribute of it, as it was before the call.                        *)
ReadMet5xx(l) ==
    l.op = "Read" /\ \E q \in Requests(l) : IsFetch(q) /\ Is5xx(q.resp.status)

C2_Read5xxLeavesRecord ==
    [][ReadMet5xx(last') => (state' = state /\ phase' = phase /\ Tracked')]_vars

C2_Witness ==
    /\ ReadMet5xx(last) /\ Tracked
    /\ kind = "group" /\ Len(last.reqs) = 2

(* C3: a Read that meets a transient failure of the fetch (5xx, transport   *)
(* error, undecodable body) reports a warning and never an error.           *)
ReadMetTransient(l) ==
    l.op = "Read" /\ \E q \in Requests(l) :
        IsFetch(q) /\ (~Answered(q) \/ Is5xx(q.resp.status) \/ Undecodable(q))

C3_ReadFailureIsWarning ==
    ReadMetTransient(last) => (HasWarning(last.diags) /\ ~HasError(last.diags))

(* C4: Delete discards the tracked record only if some DELETE attempt was   *)
(* answered 404 or 2xx; otherwise it ends with an error and the record      *)
(* stays tracked.                                                           *)
C4_DeleteDiscardsOnlyIfAccepted ==
    (last.op = "Delete" /\ ~last.replay) =>
        IF \E q \in Requests(last) : DeleteAccepted(q)
        THEN phase = "Absent"
        ELSE HasError(last.diags) /\ Tracked

(* C5: Delete retries: an attempt that fails, when fewer than MaxTries have *)
(* been made, is followed by another attempt.                               *)
C5_DeleteRetries ==
    last.op = "Delete" =>
        \A i \in 1..Len(last.reqs) :
            (~DeleteAccepted(last.reqs[i]) /\ i < MaxTries) => i < Len(last.reqs)

(* C6: Delete is idempotent: a Delete answered 2xx, repeated on the same    *)
(* identifier and then answered 404, reports no error either time, and the  *)
(* record is absent after each.                                             *)
RepeatedDelete ==
    /\ last.op = "Delete" /\ last.replay
    /\ gone.by = "Delete" /\ gone.tries = 1 /\ Is2xx(gone.status)
    /\ last.reqs[1].resp.status = StatusNotFound

C6_DeleteIdempotent ==
    RepeatedDelete =>
        /\ ~gone.error
        /\ last.diags = <<>>
        /\ Len(last.reqs) = 1
        /\ phase = "Absent" /\ state = NullState

C6_Witness == RepeatedDelete /\ kind = "group"

(* C7: the error of an Environment Delete that used up its attempts carries *)
(* the status and body of the last attempt as observed (status 0 and the    *)
(* transport error text when the last attempt failed in transport).         *)
EnvDeleteFailed == kind = "environment" /\ last.op = "Delete" /\ HasError(last.diags)

C7_EnvDeleteReportsLastAttempt ==
    EnvDeleteFailed =>
        /\ Len(last.reqs) = MaxTries
        /\ Len(last.diags) = 1
        /\ last.diags[1].status = last.reqs[MaxTries].resp.status
        /\ last.diags[1].body = last.reqs[MaxTries].resp.body

C7_Witness ==
    /\ EnvDeleteFailed
    /\ last.reqs[1].resp # last.reqs[MaxTries].resp
    /\ last.reqs[2].resp # last.reqs[MaxTries].resp
    /\ last.reqs[MaxTries].resp.status = NetErr

(* C8: the identifier of the tracked record stays the one stored by the     *)
(* Create that made it Managed, through every Read and Update.              *)
C8_IdentifierStable == phase = "Managed" => state.id = createdID

(* C9: a Create whose 2xx answer gives no identifier (and no Location) ends *)
(* with an error and commits nothing; no Managed record has an empty        *)
(* identifier.                                                              *)
CreatedWithoutID(l) ==
    /\ l.op = "Create"
    /\ \E q \in Requests(l) :
          /\ q.method = "POST" /\ Is2xx(q.resp.status)
          /\ q.resp.location = NoLocation
          /\ Field(q.resp.body, "id", "") = ""

C9_CreateNeedsIdentifier ==
    /\ CreatedWithoutID(last) => (HasError(last.diags) /\ phase = "Desired")
    /\ phase = "Managed" => state.id # ""

(* C10: a Create or Update whose final POST/PUT is answered with a non-2xx  *)
(* status reports an error carrying that status and body, and leaves        *)
(* tracked state as it was.                                                 *)
FinalMutation(l) ==
    l.reqs[CHOOSE i \in 1..Len(l.reqs) :
              IsMutating(l.reqs[i])
              /\ \A j \in 1..Len(l.reqs) : IsMutating(l.reqs[j]) => j <= i]

Rejected(l) ==
    /\ l.op \in {"Create", "Update"}
    /\ \E q \in Requests(l) : IsMutating(q)
    /\ Answered(FinalMutation(l)) /\ ~Is2xx(FinalMutation(l).resp.status)

ErrorCarries(l, fields) ==
    \E i \in 1..Len(l.diags) :
        /\ l.diags[i].sev = "error"
        /\ \A f \in fields : l.diags[i][f] = FinalMutation(l).resp[f]

C10_RejectedCarriesStatusAndBody ==
    [][Rejected(last') =>
          /\ ErrorCarries(last', {"status", "body"})
          /\ state' = state /\ phase' = phase]_vars

\* amended: a Project Update whose first PUT is answered 3xx reports the
\* status with the Location header, not the body
RedirectedProjectUpdate(l) ==
    /\ kind = "project" /\ l.op = "Update"
    /\ Len(l.reqs) = 1 /\ Is3xx(l.reqs[1].resp.status)

C10_RejectedCarriesStatus ==
    [][Rejected(last') =>
          /\ IF RedirectedProjectUpdate(last')
             THEN ErrorCarries(last', {"status", "location"})
             ELSE ErrorCarries(last', {"status", "body"})
          /\ state' = state /\ phase' = phase]_vars

C10_Witness ==
    /\ Rejected(last) /\ last.op = "Update" /\ kind = "environment"
    /\ FinalMutation(last).resp.status = StatusUnauthorized
    /\ Tracked

-----------------------------------------------------------------------------
\* the body of a 2xx answer to a POST or PUT that decodes under no known
\* shape: for a project neither the envelope nor the flat object gives an
\* id, a name or a key; for a group or an environment it is not a JSON object
BodyUnparsed(q) ==
    /\ IsMutating(q) /\ Is2xx(q.resp.status)
    /\ IF q.target \in {"projects", "projects/id"}
       THEN ~parseProjectJSON(q.resp.body).ok
       ELSE ~IsObject(q.resp.body)

WriteUnparsed(l) ==
    /\ l.op \in {"Create", "Update"}
    /\ l.reqs # <<>> /\ \E q \in Requests(l) : IsMutating(q)
    /\ BodyUnparsed(FinalMutation(l))

(* C11: a Create or Update whose 2xx response body cannot be parsed under   *)
(* any known shape ends with an error and commits nothing: tracked state is *)
(* as it was before the call.                                               *)
C11_UnparsedBodyAborts ==
    [][WriteUnparsed(last') =>
          /\ HasError(last'.diags)
          /\ state' = state /\ phase' = phase]_vars

(* C12: a Project Create or Update whose desired key does not match the     *)
(* key pattern ends with an error and sends no request.                     *)
C12_MalformedKeyIsRefused ==
    (/\ kind = "project" /\ last.op \in {"Create", "Update"}
     /\ ~MatchesKeyPattern(KeyChars(last.plan.key)))
        => (last.reqs = <<>> /\ HasError(last.diags))

-----------------------------------------------------------------------------
\* the PUT requests of a call, in the order sent
Puts(l) == SelectSeq(l.reqs, LAMBDA q : q.method = "PUT")

Accepted(q) == Answered(q) /\ Is2xx(q.resp.status)

(* C13: an Update whose first PUT is answered 401 sends exactly one further *)
(* PUT, and the answer to that second PUT decides the Update: not accepted, *)
(* the Update fails and writes nothing; accepted with a body that parses,   *)
(* the Update stores the record.                                            *)
C13_UnauthorizedRetriedOnce ==
    (/\ last.op = "Update" /\ Puts(last) # <<>>
     /\ Puts(last)[1].resp.status = StatusUnauthorized)
        => /\ Len(Puts(last)) = 2
           /\ ~Accepted(Puts(last)[2])
                 => (HasError(last.diags) /\ last.write = "none")
           /\ (Accepted(Puts(last)[2]) /\ ~BodyUnparsed(Puts(last)[2]))
                 => last.write = "set"

\* net/http sends a further request, to the Location of a 3xx answer, unless
\* the client's CheckRedirect returns ErrUseLastResponse
Followed(q) ==
    /\ q.client.checkRedirect # UseLastResponse
    /\ Is3xx(q.resp.status) /\ q.resp.location # NoLocation

Redirected(l) == \E q \in Requests(l) : IsMutating(q) /\ Is3xx(q.resp.status)

(* C14: no redirect is followed (a 3xx answer is the last of its request,  *)
(* nothing is sent to its Location), every request carries the bearer       *)
(* Authorization header, and an Update whose PUT is answered 3xx reports an *)
(* error and leaves tracked state as it was.                                *)
C14_RedirectsNeverFollowed ==
    [][/\ \A q \in Requests(last') :
             /\ ~Followed(q)
             /\ q.authorization = Bearer
       /\ (last'.op = "Update" /\ Redirected(last'))
             => (HasError(last'.diags) /\ state' = state /\ phase' = phase)]_vars

C14_Witness ==
    /\ kind = "project" /\ last.op = "Update" /\ Len(last.reqs) = 2
    /\ Is3xx(last.reqs[2].resp.status) /\ last.reqs[2].resp.location # NoLocation
    /\ Tracked

\* the key an environment's plan asks for: the key, or the name when the key
\* is unset or empty
DesiredEnvKey(plan) ==
    IF IsSet(plan.key) /\ plan.key # "" THEN plan.key ELSE plan.name

EnvWrite(l) == kind = "environment" /\ l.op \in {"Create", "Update"}

(* C15: the body of every Environment Create and Update carries a key: the  *)
(* desired key when it is set and not empty, the desired name otherwise.    *)
C15_EnvKeyDefaultsToName ==
    EnvWrite(last) =>
        \A q \in Requests(last) :
            IsMutating(q) => q.sent.key = Some(DesiredEnvKey(last.plan))

C15_Witness ==
    /\ EnvWrite(last) /\ last.op = "Update" /\ last.plan.key = ""
    /\ \E q \in Requests(last) : IsMutating(q) /\ q.sent.key = Some(last.plan.name)

\* the project documents among the answers of a call that state the flag
StatesProtected(l) ==
    \E q \in Requests(l) :
        /\ Accepted(q) /\ parseProjectJSON(q.resp.body).ok
        /\ IsSome(parseProjectJSON(q.resp.body).pf.protected)

(* C16: a Project Create whose desired protected flag is unset sends        *)
(* protected = false, and the record it stores has protected = false when   *)
(* no response states the flag.                                             *)
C16_ProtectedDefaultsToFalse ==
    (kind = "project" /\ last.op = "Create" /\ ~IsSet(last.plan.protected))
        => /\ \A q \in Requests(last) :
                 q.method = "POST" => q.sent.protected = Some("false")
           /\ (last.write = "set" /\ ~StatesProtected(last))
                 => state.protected = "false"

(* C17: the PUT body of an Environment Update always carries an approval    *)
(* group list, the empty list when no group is desired or none resolves.    *)
C17_EnvUpdateSendsGroupList ==
    (kind = "environment" /\ last.op = "Update")
        => \A q \in Requests(last) :
               q.method = "PUT" => IsSome(q.sent.approvalGroups)

-----------------------------------------------------------------------------
Reorderings(xs) ==
    LET n == Len(xs)
        bij == {f \in [1..n -> 1..n] : \A i, j \in 1..n : f[i] = f[j] => i = j}
    IN  {[i \in 1..n |-> xs[f[i]]] : f \in bij}

\* the plans that differ from this one only in the order of the list
Reordered(plan) ==
    IF kind = "group"
    THEN {[plan EXCEPT !.permissions = p] : p \in Reorderings(plan.permissions)}
    ELSE IF kind = "environment"
    THEN {[plan EXCEPT !.approval_groups = p] :
             p \in Reorderings(plan.approval_groups)}
    ELSE {plan}

DesiredList(plan) ==
    IF kind = "group" THEN NonEmptyValues(plan.permissions)
    ELSE NonEmptyValues(plan.approval_groups)

Canonical(xs) == IF kind = "group" THEN normalizePerms(xs) ELSE SortStrings(xs)

Responses(reqs) == [i \in 1..Len(reqs) |-> reqs[i].resp]

ListWrite(l) ==
    kind \in {"group", "environment"} /\ l.op \in {"Create", "Update"}

(* C18: normalizing any permutation of a list gives the same canonical      *)
(* sequence, and normalizing a canonical sequence returns it; a Create or   *)
(* Update given a plan that differs only in the order of the list sends the *)
(* same requests, reports the same and stores the same record.              *)
C18_OrderDoesNotMatter ==
    [][ListWrite(last') =>
          /\ \A p \in Reorderings(DesiredList(last'.plan)) :
                Canonical(p) = Canonical(DesiredList(last'.plan))
          /\ Canonical(Canonical(DesiredList(last'.plan)))
                = Canonical(DesiredList(last'.plan))
          /\ \A pp \in Reordered(last'.plan) \ {last'.plan} :
                \A o \in {Handle(Call(kind, last'.op, pp, state),
                                  Padded(Responses(last'.reqs), 1))} :
                    /\ o.reqs = last'.reqs
                    /\ o.write = last'.write /\ o.diags = last'.diags
                    /\ o.write = "set" => o.state = state']_vars

C18_Witness ==
    /\ ListWrite(last) /\ last.write = "set"
    /\ DesiredList(last.plan) # Canonical(DesiredList(last.plan))
    /\ kind = "group" /\ state.permissions # <<>>

NoDuplicates(xs) == \A i, j \in 1..Len(xs) : xs[i] = xs[j] => i = j

SentList(q) ==
    IF kind = "group" THEN q.sent.permissions
    ELSE IF IsSome(q.sent.approvalGroups) THEN Get(q.sent.approvalGroups)
    ELSE <<>>

(* C19: the permissions and approval_groups in tracked state and in request *)
(* bodies never hold the same element twice.                                *)
C19_ListsHaveNoDuplicates ==
    kind \in {"group", "environment"} =>
        /\ \A q \in Requests(last) : IsMutating(q) => NoDuplicates(SentList(q))
        /\ Tracked =>
              NoDuplicates(IF kind = "group" THEN state.permissions
                           ELSE state.approval_groups)

\* the call asked for group names to be resolved and got the listing
ResolvedNames(l) ==
    /\ EnvWrite(l) /\ l.reqs # <<>>
    /\ l.reqs[1].target = "groups?perPage=500"
    /\ Accepted(l.reqs[1]) /\ IsObject(l.reqs[1].resp.body)

ListedNames(q) ==
    LET res == Field(q.resp.body, "results", <<>>)
    IN  {UnmarshalGroupItem(res[i]).name : i \in 1..Len(res)}

(* C20: when the group listing is obtained, a desired name that is missing  *)
(* from it contributes nothing and is no error: the Create or Update goes   *)
(* on to submit, with one identifier for each desired name that is listed.  *)
C20_MissingNameIsNoError ==
    ResolvedNames(last) =>
        /\ Len(last.reqs) >= 2 /\ IsMutating(last.reqs[2])
        /\ Len(SentList(last.reqs[2]))
              = Len(SelectSeq(EnvNames(last.plan),
                              LAMBDA n : n \in ListedNames(last.reqs[1])))
        /\ \A i \in 1..Len(last.diags) :
              last.diags[i].summary # "Error resolving approval_groups (names->IDs)"

C20_Witness ==
    /\ ResolvedNames(last)
    /\ ListedNames(last.reqs[1]) = {}
    /\ SentList(last.reqs[2]) = <<>>

-----------------------------------------------------------------------------
(* The listing functions *)

Range(s) == {s[i] : i \in 1..Len(s)}

\* the listing the resolver is given: the answer to its one request
Listing(c) == Serve(c.backend, 1).body

ListedIn(c, f) ==
    LET res == Field(Listing(c), "results", <<>>)
    IN  {UnmarshalGroupItem(res[i])[f] : i \in 1..Len(res)}

\* no two groups of the listing share an identifier
DistinctIDs(c) ==
    LET res == Field(Listing(c), "results", <<>>)
    IN  \A i, j \in 1..Len(res) :
            UnmarshalGroupItem(res[i]).id = UnmarshalGroupItem(res[j]).id => i = j

\* names were resolved to identifiers and these back to names, both against
\* the same listing
RoundTrip == calc.fn = "resolve" /\ calc.step = "back"

BackAreListedNames ==
    /\ Range(calc.back) \subseteq Range(calc.names)
    /\ Range(calc.back) = Range(calc.names) \cap ListedIn(calc, "name")

(* C21, as the spec has it: for every set of names and every group listing  *)
(* that is the same in both calls, resolving the names and unresolving the  *)
(* result gives a subset of the names: the names that are in the listing.   *)
C21_RoundTripAnyListing == RoundTrip => BackAreListedNames

(* C21: for every set of names and every group listing that is the same in  *)
(* both calls and in which no two groups share an identifier (two may share *)
(* a name), resolving the names and unresolving the result gives a subset   *)
(* of the names: the names that are in the listing.                         *)
C21_RoundTrip == RoundTrip /\ DistinctIDs(calc) => BackAreListedNames

C21_Witness ==
    /\ RoundTrip /\ DistinctIDs(calc)
    /\ calc.names = <<"A", "C">>
    /\ Listing(calc).results = <<GroupA, GroupA3>>
    /\ calc.back = <<"A">>

\* the groups the backend holds, on whatever page it serves them
Held(c, f) == {UnmarshalGroupItem(c.backend.groups[i])[f] :
                  i \in 1..Len(c.backend.groups)}

HeldWith(c, f, v) ==
    {UnmarshalGroupItem(c.backend.groups[i]) :
        i \in {j \in 1..Len(c.backend.groups) :
                  UnmarshalGroupItem(c.backend.groups[j])[f] = v}}

(* C22: the resolvers work on the full listing of the project, every page   *)
(* of it: a requested name whose group the backend holds is resolved to the *)
(* identifier of a group of that name, and an identifier it holds to the    *)
(* name of that group, whatever the number of groups and the page size.     *)
C22_ResolvesOnAnyPage ==
    calc.fn = "resolve" =>
        /\ calc.step \in {"ids", "back"} =>
              \A n \in Range(calc.names) \cap Held(calc, "name") :
                  \E g \in HeldWith(calc, "name", n) : g.id \in Range(calc.ids)
        /\ calc.step = "back" =>
              \A id \in Range(calc.ids) \cap Held(calc, "id") :
                  \E g \in HeldWith(calc, "id", id) : g.name \in Range(calc.back)

(* C23: approval_groups is a list of group identifiers: an Environment      *)
(* Create or Update whose approval_groups holds the identifier of a group   *)
(* of the project's listing submits that identifier among approvalGroups.   *)
C23_DeclaredIDsAreSubmitted ==
    ResolvedNames(last) =>
        \A id \in Range(EnvNames(last.plan)) :
            (\E i \in 1..Len(Field(last.reqs[1].resp.body, "results", <<>>)) :
                UnmarshalGroupItem(last.reqs[1].resp.body.results[i]).id = id)
            => /\ Len(last.reqs) >= 2 /\ IsMutating(last.reqs[2])
               /\ id \in Range(SentList(last.reqs[2]))

\* the request by which the call asked for the names of the identifiers in
\* the environment payload: the listing request after the payload was got
Unresolving(l) ==
    {i \in 2..Len(l.reqs) :
        /\ i = Len(l.reqs)
        /\ l.reqs[i].target = "groups?perPage=500"
        /\ l.reqs[i - 1].target # "groups?perPage=500"}

IDsNamed(ag) ==
    IF ag.form = "strings" THEN ag.items
    ELSE [i \in 1..Len(ag.items) |-> ag.items[i].id]

\* the payload with the same identifiers in the one shape and in the other
AsStrings(raw) ==
    [raw EXCEPT !.approvalGroups =
        [form |-> "strings", items |-> IDsNamed(raw.approvalGroups)]]

AsObjects(raw) ==
    [raw EXCEPT !.approvalGroups =
        [form |-> "objects",
         items |-> [i \in 1..Len(IDsNamed(raw.approvalGroups)) |->
                       [id |-> IDsNamed(raw.approvalGroups)[i], name |-> "n"]]]]

Decoded == calc.fn = "decode" /\ calc.done

(* C25: decoding an environment payload gives the same list of approval-    *)
(* group identifiers whether approvalGroups is an array of identifier       *)
(* strings or an array of {id, name} objects with those ids; when the field *)
(* is absent or is neither, the list is empty; in every case the other      *)
(* fields of the record are decoded as the payload has them.                *)
C25_EitherShapeSameIDs ==
    Decoded =>
        /\ IF calc.raw.approvalGroups.form \in {"strings", "objects"}
           THEN /\ calc.item.approvalGroups = IDsNamed(calc.raw.approvalGroups)
                /\ UnmarshalEnvItem(AsStrings(calc.raw)) = calc.item
                /\ UnmarshalEnvItem(AsObjects(calc.raw)) = calc.item
           ELSE calc.item.approvalGroups = <<>>
        /\ calc.item.id = calc.raw.id /\ calc.item.name = calc.raw.name
        /\ calc.item.type = calc.raw.type /\ calc.item.key = calc.raw.key
        /\ calc.item.approvalMode = calc.raw.approvalMode

C25_Witness ==
    /\ Decoded
    /\ calc.raw.approvalGroups.form = "objects"
    /\ calc.item.approvalGroups = <<"g2", "g1", "g3">>

\* every fetch of the Read was answered 2xx with a listing, as a bare array
\* of records or as a {results, paginate} envelope
ListingsServed(l) ==
    /\ l.op = "Read" /\ l.reqs # <<>>
    /\ \A q \in Requests(l) :
          IsFetch(q) => /\ Accepted(q)
                        /\ q.resp.body.shape \in {"array", "envelope"}

(* C26: the listing of groups and the listing of environments are accepted  *)
(* both as a bare array of records and as a {results, paginate} envelope: a *)
(* Read whose listing requests are all answered 2xx in either shape reports *)
(* no error.                                                                *)
C26_EitherListingShape ==
    (kind \in {"group", "environment"} /\ ListingsServed(last))
        => ~HasError(last.diags)

\* the records of the pages a group Read was served, in page order
RECURSIVE PagesListed(_, _)
PagesListed(l, i) ==
    IF i > Len(l.reqs) THEN <<>>
    ELSE ListedItems(l.reqs[i].resp.body) \o PagesListed(l, i + 1)

GroupStored(l) == kind = "group" /\ l.write = "set"

(* C27: the description and the permissions a Group Create, Read or Update  *)
(* stores are never null.  With no description in the payload the stored    *)
(* description is the planned one when there is one (Create, Update) and    *)
(* the empty string otherwise; with no permissions in the payload the       *)
(* stored permissions are the empty list.  Every record of a page of the    *)
(* group listing has a permissions list.                                    *)
C27_GroupFieldsNeverNull ==
    kind = "group" =>
        /\ Tracked => state.description \notin {Null, Unknown}
        /\ (GroupStored(last) /\ last.op \in {"Create", "Update"}) =>
              LET it == UnmarshalGroupItem(FinalMutation(last).resp.body)
              IN  /\ ~IsSome(it.description) =>
                         state.description = IF IsSet(last.plan.description)
                                             THEN last.plan.description ELSE ""
                  /\ ~IsSome(it.permissions) => state.permissions = <<>>
        /\ (GroupStored(last) /\ last.op = "Read") =>
              LET it == Get(FirstWithID(PagesListed(last, 1), state.id))
              IN  /\ ~IsSome(it.description) => state.description = ""
                  /\ state.permissions = SortStrings(Get(it.permissions))
        /\ last.op = "Read" =>
              \A i \in 1..Len(PagesListed(last, 1)) :
                  IsSome(PagesListed(last, 1)[i].permissions)

\* a Create with no description planned stored a payload that has neither
\* description nor permissions
C27_Witness ==
    /\ GroupStored(last) /\ last.op = "Create"
    /\ last.plan.description = Null
    /\ UnmarshalGroupItem(FinalMutation(last).resp.body).description = None
    /\ "permissions" \notin DOMAIN FinalMutation(last).resp.body
    /\ state.description = "" /\ state.permissions = <<>>

-----------------------------------------------------------------------------
(* The page walker *)

Walking == calc.fn = "walk"

\* the backend serves its groups in consecutive pages and never fails
WellBehaved == Walking /\ calc.backend.serves = "pages" /\ calc.backend.fault.at = 0

\* the pages it takes to serve every group
PagesNeeded(b) ==
    IF b.pageSize = 0 \/ Len(b.groups) = 0 THEN 1
    ELSE (Len(b.groups) + b.pageSize - 1) \div b.pageSize

(* C28: against a backend that holds N groups, serves them in consecutive   *)
(* pages and reports total = N, the walk requests pages 1, 2, 3, ... in     *)
(* order, ends after the pages it takes to serve N groups, and returns the  *)
(* N groups in page order, each once.  When the first response reports      *)
(* total = 0 or pageSize = 0, the walk returns that page after one request. *)
C28_WalkReturnsEveryGroup ==
    WellBehaved =>
        /\ \A i \in 1..Len(calc.reqs) : calc.reqs[i].sent.page = i
        /\ Len(calc.reqs) <= PagesNeeded(calc.backend)
        /\ calc.done \/ calc.page <= PagesNeeded(calc.backend)
        /\ calc.done =>
              /\ ~calc.result.err
              /\ Len(calc.reqs) = PagesNeeded(calc.backend)
              /\ calc.result.items
                    = [i \in 1..Len(calc.backend.groups) |->
                          ListedItem(calc.backend.groups[i])]
        /\ (calc.done /\ (calc.backend.pageSize = 0 \/ calc.backend.groups = <<>>)) =>
              /\ Len(calc.reqs) = 1
              /\ calc.result.items = ListedItems(calc.reqs[1].resp.body)

\* three groups served two to a page: two requests, three records
C28_Witness ==
    /\ WellBehaved /\ calc.done
    /\ Len(calc.backend.groups) = 3 /\ calc.backend.pageSize = 2
    /\ Len(calc.reqs) = 2 /\ Len(calc.result.items) = 3

\* the backend answers every page 2xx with a total and a page size that are
\* not zero and with no record: the count collected stays below the total
Stalling ==
    /\ Walking /\ calc.backend.serves = "empty" /\ calc.backend.fault.at = 0
    /\ calc.backend.pageSize # 0 /\ calc.backend.groups # <<>>

(* C29: the walk has no ceiling on the number of pages.  Against a backend  *)
(* that keeps answering 2xx with a total and a page size that are not zero  *)
(* while the count collected stays below the total, every turn of the walk  *)
(* asks for the next page and none returns.                                 *)
C29_NoCeiling ==
    [][Stalling =>
          /\ ~calc'.done
          /\ calc'.page = calc.page + 1
          /\ Len(calc'.reqs) = calc.page
          /\ calc'.reqs[calc.page].sent.page = calc.page]_vars

\* the walk has asked for every page it is followed for and has not returned
C29_Witness == Stalling /\ ~calc.done /\ calc.page = MaxWalk + 1

\* the request met a network error, a status from 300 up or a body that is
\* no listing
PageFailed(q) ==
    \/ q.resp.status = NetErr
    \/ q.resp.status >= 300
    \/ ~IsObject(q.resp.body)

(* C30: when a page request of the walk fails (network error, status from   *)
(* 300 up, body that does not parse), the walk returns an error and no      *)
(* record: the records of the pages before are not returned.                *)
C30_FailedPageFailsWalk ==
    (Walking /\ calc.done) =>
        /\ (\E i \in 1..Len(calc.reqs) : PageFailed(calc.reqs[i])) =>
              calc.result.err /\ calc.result.items = <<>>
        /\ ~calc.result.err =>
              \A i \in 1..Len(calc.reqs) : ~PageFailed(calc.reqs[i])

\* the second page failed after the first had given a record
C30_Witness ==
    /\ Walking /\ calc.done
    /\ Len(calc.reqs) = 2 /\ PageFailed(calc.reqs[2])
    /\ calc.collected # <<>>
    /\ calc.result.err /\ calc.result.items = <<>>

-----------------------------------------------------------------------------
(* The life of a resource instance *)

(* C31: an instance goes from Desired to Managed to Absent.  It becomes     *)
(* Managed only from Desired, by a Create that reports no error; a Read or  *)
(* an Update of a Managed record leaves it Managed, but for a Read that     *)
(* removes it on a fetch answered 404; a Create that reports an error       *)
(* leaves no record; an Absent instance stays Absent, whatever is called.   *)
C31_Lifecycle ==
    [][/\ (phase # "Managed" /\ phase' = "Managed") =>
             /\ phase = "Desired" /\ last'.op = "Create"
             /\ ~HasError(last'.diags) /\ state' # NullState
       /\ (phase = "Managed" /\ last'.op \in {"Read", "Update"}) =>
             \/ phase' = "Managed" /\ state' # NullState
             \/ /\ last'.op = "Read" /\ phase' = "Absent" /\ state' = NullState
                /\ \E q \in Requests(last') :
                      IsFetch(q) /\ q.resp.status = StatusNotFound
       /\ (last'.op = "Create" /\ HasError(last'.diags)) =>
             phase' = "Desired" /\ state' = NullState
       /\ phase = "Absent" => phase' = "Absent" /\ state' = NullState
       /\ phase' = "Desired" => phase = "Desired"]_vars

\* a Delete called again on an instance a Delete had removed
C31_Witness ==
    /\ phase = "Absent" /\ state = NullState
    /\ last.op = "Delete" /\ last.replay /\ gone.by = "Delete"

(* C32: a Project Update never sends copy_content_ref, whatever the plan    *)
(* says, and leaves the copy_content_ref and the identifier of the tracked  *)
(* record as they were.                                                     *)
C32_UpdateIgnoresCopyRef ==
    [][(kind = "project" /\ last'.op = "Update") =>
          /\ \A q \in Requests(last') : q.sent.copyContentRef = None
          /\ phase' = "Managed"
          /\ state'.copy_content_ref = state.copy_content_ref
          /\ state'.id = state.id]_vars

\* an Update whose plan names a template stored a record that names none
C32_Witness ==
    /\ kind = "project" /\ last.op = "Update" /\ last.write = "set"
    /\ last.plan.copy_content_ref = "t1"
    /\ state.copy_content_ref = Null

-----------------------------------------------------------------------------
(* Project Create and its hydration GET *)

\* the identifier the creation response gives: the id of its body, else the
\* last segment of its Location header
CreationID(l) ==
    LET r1 == l.reqs[1].resp
        id == parseProjectJSON(r1.body).pf.id
    IN  IF id # "" THEN id
        ELSE IF r1.location # NoLocation THEN LastSegment(r1.location)
        ELSE ""

Hydrated(l) == kind = "project" /\ l.op = "Create" /\ Len(l.reqs) = 2

\* the hydration GET met a network error, a status that is not 2xx or a body
\* that does not parse
HydrationFailed(l) ==
    /\ Hydrated(l)
    /\ \/ l.reqs[2].resp.status = NetErr
       \/ l.reqs[2].resp.status >= 300
       \/ ~parseProjectJSON(l.reqs[2].resp.body).ok

\* the record a Create is left with when only the creation response counts
BestEffort(l) ==
    LET pf == parseProjectJSON(l.reqs[1].resp.body).pf
    IN  ProjectModel(CreationID(l),
                     firstNonEmptyStringTF(pf.name, l.plan.name),
                     firstNonEmptyStringTF(pf.key, l.plan.key),
                     IF IsSome(pf.protected) THEN BoolTF(Get(pf.protected))
                     ELSE IF IsSet(l.plan.protected) THEN l.plan.protected
                     ELSE Null,
                     l.plan.copy_content_ref)

\* the part of C33 about the record: the Create stores the best-effort record
HydrationFailureKeepsRecord ==
    HydrationFailed(last) =>
        /\ last.write = "set" /\ phase = "Managed"
        /\ ~HasError(last.diags)
        /\ state = BestEffort(last)

(* C33: a Project Create whose POST gave an identifier still succeeds when  *)
(* the hydration GET fails: the record keeps that identifier and takes its  *)
(* other fields from the creation response or, where it has none, from the  *)
(* plan; the failure is reported as a warning, not as an error.             *)
C33_HydrationFailureIsWarning ==
    /\ HydrationFailureKeepsRecord
    /\ HydrationFailed(last) => HasWarning(last.diags)

(* C39: the identifier a Project Create stores is the one the creation      *)
(* response gave (the id of its body, else the last segment of Location),   *)
(* whatever the hydration GET returns: a hydration response that parses but *)
(* has no id, or another id, neither clears nor replaces it.                *)
C39_HydrationKeepsIdentifier ==
    (kind = "project" /\ last.op = "Create" /\ last.write = "set")
        => state.id = CreationID(last)

-----------------------------------------------------------------------------
(* Operations at the same time *)

Sharing == calc.fn = "shared"

Other(i) == 3 - i

-----------------------------------------------------------------------------
(* Environment Delete and its attempts *)

EnvDelete == kind = "environment" /\ last.op = "Delete"

(* C35: an Environment Delete sends at most MaxTries requests, all DELETE;  *)
(* an attempt is made only if every earlier one failed, a transport failure *)
(* counting as a failed attempt like a status that is neither 404 nor 2xx   *)
(* (so that while fewer than MaxTries were made another one follows); the   *)
(* record is removed exactly when an attempt is answered 404 or 2xx, be it  *)
(* the first, second or third, and that attempt is the last; otherwise the  *)
(* Delete ends in an error.                                                 *)
C35_EnvDeleteAttempts ==
    EnvDelete =>
        /\ Len(last.reqs) \in 1..MaxTries
        /\ \A n \in 1..Len(last.reqs) :
              /\ last.reqs[n].method = "DELETE"
              /\ n < Len(last.reqs) => ~DeleteAccepted(last.reqs[n])
              /\ (~DeleteAccepted(last.reqs[n]) /\ n < MaxTries) => n < Len(last.reqs)
        /\ IF DeleteAccepted(last.reqs[Len(last.reqs)])
           THEN last.write = "remove" /\ last.diags = <<>> /\ phase = "Absent"
           ELSE last.write = "none" /\ HasError(last.diags)

\* the record went on the third attempt, after a transport failure and a 500
C35_Witness ==
    /\ EnvDelete /\ ~last.replay /\ Len(last.reqs) = MaxTries
    /\ last.reqs[1].resp.status = NetErr
    /\ last.reqs[2].resp.status = 500
    /\ Is2xx(last.reqs[MaxTries].resp.status)
    /\ phase = "Absent"

-----------------------------------------------------------------------------
(* Project Update and its retry *)

FinalError(q) == q.resp.status = NetErr \/ q.resp.status >= 300

(* C36: a Project Update sends at most two requests, both PUT, the second   *)
(* only when the first was answered 401; a second PUT that meets a          *)
(* transport failure or is answered 401 or any other status of 300 or more  *)
(* ends the Update in an error with the record as it was; a transport       *)
(* failure of either PUT ends the Update there, in an error with the record *)
(* as it was.                                                               *)
C36_ProjectUpdateRetriesOnce ==
    [][(kind = "project" /\ last'.op = "Update") =>
          /\ Len(last'.reqs) \in 1..2
          /\ \A n \in 1..Len(last'.reqs) :
                /\ last'.reqs[n].method = "PUT"
                /\ last'.reqs[n].resp.status = NetErr =>
                      /\ n = Len(last'.reqs)
                      /\ HasError(last'.diags) /\ last'.write = "none"
                      /\ state' = state /\ phase' = phase
          /\ Len(last'.reqs) = 2 =>
                /\ last'.reqs[1].resp.status = StatusUnauthorized
                /\ FinalError(last'.reqs[2]) =>
                      /\ HasError(last'.diags) /\ last'.write = "none"
                      /\ state' = state /\ phase' = phase]_vars

\* the retry was answered 401 as well
C36_Witness ==
    /\ kind = "project" /\ last.op = "Update" /\ Len(last.reqs) = 2
    /\ last.reqs[2].resp.status = StatusUnauthorized
    /\ HasError(last.diags) /\ last.write = "none" /\ Tracked

-----------------------------------------------------------------------------
(* Environment writes and the group listings around them *)

IsGroupListing(q) == q.method = "GET" /\ q.target = "groups?perPage=500"

ListingFailed(q) ==
    /\ IsGroupListing(q)
    /\ (q.resp.status = NetErr \/ q.resp.status >= 300 \/ ~IsObject(q.resp.body))

(* C37: an Environment Create or Update whose desired approval_groups hold  *)
(* a name starts with the group listing, and when that listing fails (a     *)
(* transport failure, a status of 300 or more, a body that does not parse)  *)
(* the operation reports an error and sends nothing else, no POST and no    *)
(* PUT; the tracked record stays as it was.                                 *)
C37_FailedResolutionSendsNothing ==
    [][(EnvWrite(last') /\ EnvNames(last'.plan) # <<>>) =>
          /\ IsGroupListing(last'.reqs[1])
          /\ ListingFailed(last'.reqs[1]) =>
                /\ Len(last'.reqs) = 1
                /\ HasError(last'.diags) /\ last'.write = "none"
                /\ state' = state /\ phase' = phase]_vars

\* an Update of a tracked environment met a listing that does not parse
C37_Witness ==
    /\ EnvWrite(last) /\ last.op = "Update" /\ EnvNames(last.plan) # <<>>
    /\ ListingFailed(last.reqs[1]) /\ Is2xx(last.reqs[1].resp.status)
    /\ HasError(last.diags) /\ Tracked

\* the listing that turns identifiers back into names was sent, after the
\* request that obtained the environment, and failed
NamesBackFailed(l, methods) ==
    /\ kind = "environment" /\ Len(l.reqs) >= 2
    /\ l.reqs[Len(l.reqs) - 1].method \in methods
    /\ ~IsGroupListing(l.reqs[Len(l.reqs) - 1])
    /\ ListingFailed(l.reqs[Len(l.reqs)])

\* the environment a Read found in the listing of environments
Found(l, id) == Get(findEnvironmentByID(l.reqs[1].resp, id).found)

(* C38: when the listing that turns identifiers into names fails after the  *)
(* environment was obtained, the operation goes on.  A Create or Update     *)
(* succeeds with a warning and no error and stores the planned names (those *)
(* that are not empty, in sorted order); a Read ends with a warning and no  *)
(* error, keeps the approval_groups of the tracked record and stores the    *)
(* name, key, type and approval_mode the backend gave.                      *)
C38_FailedNamesFallBack ==
    [][/\ (last'.op \in {"Create", "Update"} /\ NamesBackFailed(last', {"POST", "PUT"})) =>
             /\ last'.write = "set" /\ phase' = "Managed"
             /\ HasWarning(last'.diags) /\ ~HasError(last'.diags)
             /\ state'.approval_groups = SortStrings(NonEmptyValues(last'.plan.approval_groups))
       /\ (last'.op = "Read" /\ NamesBackFailed(last', {"GET"})) =>
             /\ last'.write = "set" /\ phase' = "Managed"
             /\ HasWarning(last'.diags) /\ ~HasError(last'.diags)
             /\ state'.approval_groups = state.approval_groups
             /\ state'.name = Found(last', state.id).name
             /\ state'.key = Found(last', state.id).key
             /\ state'.type = Found(last', state.id).type
             /\ state'.approval_mode =
                   IF IsSome(Found(last', state.id).approvalMode)
                   THEN Get(Found(last', state.id).approvalMode) ELSE Null]_vars

\* a Read that could not resolve the names ended with a warning; the record
\* has two approval groups and the name and approval_mode the backend gave
C38_Witness ==
    /\ last.op = "Read" /\ NamesBackFailed(last, {"GET"})
    /\ last.write = "set" /\ HasWarning(last.diags)
    /\ state.approval_groups = <<"A", "B">>
    /\ state.name = "y" /\ state.approval_mode = "require_any"

-----------------------------------------------------------------------------
(* The page walker and other clients of the backend *)

\* how often the walk returned the group
TimesReturned(g) ==
    Cardinality({i \in 1..Len(calc.result.items) :
                    calc.result.items[i] = ListedItem(g)})

\* the walk returned while other clients changed the groups of the project
WalkedThroughChurn ==
    /\ calc.fn = "walk" /\ calc.done /\ ~calc.result.err /\ calc.changes > 0

\* without such changes the walk returns every group once
QuietWalkIsComplete ==
    (calc.fn = "walk" /\ calc.done /\ calc.changes = 0) =>
        \A i \in 1..Len(calc.throughout) : TimesReturned(calc.throughout[i]) = 1

(* C40: when other clients create or delete groups between two page        *)
(* requests of a walk, the walk still returns every group that the backend  *)
(* held throughout the walk, each exactly once.                             *)
C40_WalkSurvivesChurn ==
    WalkedThroughChurn =>
        \A i \in 1..Len(calc.throughout) : TimesReturned(calc.throughout[i]) = 1

====
